---- MODULE Spec2Model ----
(***************************************************************************)
(* Metadata Explorer (Iceberg / Delta): the Streamlit script               *)
(* app/OpenTableFormat_MetadataViewet.py, modelled as the state machine of *)
(* its script runs (extract DDL details -> resolve stage -> list files ->  *)
(* select a file -> read and analyze it -> remove the scratch directory),  *)
(* plus the BASE_LOCATION / EXTERNAL_VOLUME block of the older root-level  *)
(* script, which is the only place a line-scan fallback exists, the        *)
(* database and table selection of both scripts over the runs of one       *)
(* session, and the helper functions of the script applied on their own   *)
(* to enumerated arguments (the json record reader, cleanse_for_cortex,    *)
(* show_parquet_metadata).                                                 *)
(*                                                                         *)
(* Text is a sequence of one-character strings, so that stripping,         *)
(* prefix tests, regular-expression search and joining are computed        *)
(* character by character, the way the Python code computes them.          *)
(***************************************************************************)
EXTENDS Integers, Sequences, FiniteSets, TLC

\* ------------------------------------------------------------------ bounds
\* longest raw S3_PATH of the enumerated volume tables
MaxPathLen == 4
\* longest raw STAGE_URL of the enumerated stage tables
MaxUrlLen == 1
\* most rows of the enumerated stage tables
MaxStages == 2
\* longest quoted value of the enumerated descriptors
MaxValLen == 3
\* longest object key tried against a list pattern
MaxKeyLen == 3
\* most script runs of one session
MaxRuns == 2

\* ------------------------------------------------------- Python's values
\* None; no text is equal to it, since every character is one letter long
NONE == <<"None">>

\* what an operator yields when the Python expression raises
RAISED == <<"Raised">>

\* `if x:` on an optional string
Truthy(x) == x /= NONE /\ x /= <<>>

\* ---------------------------------------------------------- str helpers
\* s.startswith(p)
StartsWith(s, p) == Len(p) <= Len(s) /\ SubSeq(s, 1, Len(p)) = p

\* s.endswith(p)
EndsWith(s, p) == Len(p) <= Len(s) /\ SubSeq(s, Len(s) - Len(p) + 1, Len(s)) = p

RECURSIVE RStrip(_, _)
\* s.rstrip(chars): drops every trailing character that is a member of chars
RStrip(s, chars) ==
    IF s /= <<>> /\ s[Len(s)] \in chars
    THEN RStrip(SubSeq(s, 1, Len(s) - 1), chars)
    ELSE s

RECURSIVE LStrip(_, _)
\* s.lstrip(chars)
LStrip(s, chars) ==
    IF s /= <<>> /\ s[1] \in chars
    THEN LStrip(SubSeq(s, 2, Len(s)), chars)
    ELSE s

\* s.strip(chars)
Strip(s, chars) == LStrip(RStrip(s, chars), chars)

RECURSIVE Join(_, _)
\* sep.join(parts)
Join(parts, sep) ==
    IF parts = <<>> THEN <<>>
    ELSE IF Len(parts) = 1 THEN parts[1]
    ELSE parts[1] \o sep \o Join(Tail(parts), sep)

\* [p for p in parts if p]
NonEmpty(parts) == SelectSeq(parts, LAMBDA p : p /= <<>>)

LowerLetters ==
    <<"a","b","c","d","e","f","g","h","i","j","k","l","m",
      "n","o","p","q","r","s","t","u","v","w","x","y","z">>

UpperLetters ==
    <<"A","B","C","D","E","F","G","H","I","J","K","L","M",
      "N","O","P","Q","R","S","T","U","V","W","X","Y","Z">>

\* the upper-case letter of each lower-case letter
UpperOf ==
    [c \in {LowerLetters[k] : k \in 1..Len(LowerLetters)} |->
        UpperLetters[CHOOSE k \in 1..Len(LowerLetters) : LowerLetters[k] = c]]

\* str.upper() of one character (also how re.IGNORECASE compares letters)
Upper(c) == IF c \in DOMAIN UpperOf THEN UpperOf[c] ELSE c

\* s.upper()
UpperStr(s) == [k \in 1..Len(s) |-> Upper(s[k])]

\* the lower-case letter of each upper-case letter
LowerOf ==
    [c \in {UpperLetters[k] : k \in 1..Len(UpperLetters)} |->
        LowerLetters[CHOOSE k \in 1..Len(UpperLetters) : UpperLetters[k] = c]]

\* s.lower()
LowerStr(s) == [k \in 1..Len(s) |-> IF s[k] \in DOMAIN LowerOf THEN LowerOf[s[k]] ELSE s[k]]

\* sub in s
Contains(s, sub) ==
    \E i \in 1..(Len(s) - Len(sub) + 1) : SubSeq(s, i, i + Len(sub) - 1) = sub

\* all texts over the characters cs of length 0..n
RECURSIVE TextsUpTo(_, _)
TextsUpTo(cs, n) ==
    IF n = 0 THEN {<<>>}
    ELSE LET shorter == TextsUpTo(cs, n - 1)
         IN  shorter \cup {Append(t, c) : t \in shorter, c \in cs}

\* ------------------------------------------------ descriptor (DDL) parser
\* the class \s of the re module, on the characters a DDL text holds
Whitespace == {" ", "\t", "\n", "\r"}

\* the class ['\"]
Quotes == {"'", "\""}

KEY_EXTERNAL_VOLUME == <<"E","X","T","E","R","N","A","L","_","V","O","L","U","M","E">>
KEY_CATALOG == <<"C","A","T","A","L","O","G">>
KEY_BASE_LOCATION == <<"B","A","S","E","_","L","O","C","A","T","I","O","N">>

RECURSIVE SkipBlanks(_, _)
\* the mutant of SkipWhitespace that knows the blank only, not \t \n \r
SkipBlanks(text, j) ==
    IF j <= Len(text) /\ text[j] = " " THEN SkipBlanks(text, j + 1) ELSE j

RECURSIVE SkipWhitespace(_, _)
\* \s*: the first position at or after j that holds no whitespace
SkipWhitespace(text, j) ==
    IF j <= Len(text) /\ text[j] \in Whitespace
    THEN SkipWhitespace(text, j + 1)
    ELSE j

RECURSIVE NextQuote(_, _)
\* [^'\"]+ is greedy: it runs to the next quote character, or past the end
NextQuote(text, j) ==
    IF j <= Len(text) /\ text[j] \notin Quotes
    THEN NextQuote(text, j + 1)
    ELSE j

\* the key, compared letter by letter under re.IGNORECASE, at position i
KeyAt(text, i, key) ==
    /\ i + Len(key) - 1 <= Len(text)
    /\ \A k \in 1..Len(key) : Upper(text[i + k - 1]) = Upper(key[k])

\* KEY\s*=\s*['\"]([^'\"]+)['\"] tried at position i: group 1, or NONE
MatchQuotedAt(text, i, key) ==
    IF ~KeyAt(text, i, key) THEN NONE
    ELSE LET eq == SkipWhitespace(text, i + Len(key))
         IN  IF eq > Len(text) \/ text[eq] /= "=" THEN NONE
             ELSE LET q == SkipWhitespace(text, eq + 1)
                  IN  IF q > Len(text) \/ text[q] \notin Quotes THEN NONE
                      ELSE LET e == NextQuote(text, q + 1)
                           IN  IF e > Len(text) \/ e = q + 1 THEN NONE
                               ELSE SubSeq(text, q + 1, e - 1)

\* m = re.search(r"KEY\s*=\s*['\"]([^'\"]+)['\"]", ddl, re.IGNORECASE);
\* m.group(1) if m else None  (the leftmost match)
SearchQuoted(text, key) ==
    LET hits == {i \in 1..Len(text) : MatchQuotedAt(text, i, key) /= NONE}
    IN  IF hits = {} THEN NONE
        ELSE MatchQuotedAt(text, CHOOSE i \in hits : \A h \in hits : i <= h, key)

\* if value: value = value.rstrip("/*").rstrip("/")
CleanUp(value) ==
    IF Truthy(value) THEN RStrip(RStrip(value, {"/", "*"}), {"/"}) ELSE value

\* ------------------------------------------------------ stage resolver
\* S3_PATH / STAGE_URL normalisation: .rstrip("/*").rstrip("/")
NormalizePath(path) == RStrip(RStrip(path, {"/", "*"}), {"/"})

\* the mutant of StageMatches that tests a raw prefix, with no '/' boundary
StageMatchesRawPrefix(ev, candidate) == StartsWith(ev, candidate)

\* ev_s3_path == stage_url_candidate or
\* ev_s3_path.startswith(stage_url_candidate + "/")
StageMatches(ev, candidate) ==
    ev = candidate \/ StartsWith(ev, candidate \o <<"/">>)

\* the mutant of FindStage that takes the first stage when none matches
FindStageOrFirst(stage_df, ev) ==
    LET hits == {i \in 1..Len(stage_df) :
                    StageMatches(ev, NormalizePath(stage_df[i].STAGE_URL))}
    IN  IF hits = {} THEN (IF stage_df = <<>> THEN 0 ELSE 1)
        ELSE CHOOSE i \in hits : \A h \in hits : i <= h

\* the loop over stage_df.iterrows(): the index of the first row whose
\* normalised STAGE_URL matches, or 0 when the loop ends without a break
FindStage(stage_df, ev) ==
    LET hits == {i \in 1..Len(stage_df) :
                    StageMatches(ev, NormalizePath(stage_df[i].STAGE_URL))}
    IN  IF hits = {} THEN 0 ELSE CHOOSE i \in hits : \A h \in hits : i <= h

\* the mutant of RelativeFromEv that strips the stage URL but not the '/'
RelativeFromEvKeepSeparator(ev, url) ==
    IF ev = url THEN <<>>
    ELSE IF StartsWith(ev, url \o <<"/">>) THEN SubSeq(ev, Len(url) + 1, Len(ev))
    ELSE <<>>

\* relative_from_ev: ev_s3_path[len(stage_url) + 1:] when the stage URL is a
\* proper prefix, "" otherwise
RelativeFromEv(ev, url) ==
    IF ev = url THEN <<>>
    ELSE IF StartsWith(ev, url \o <<"/">>) THEN SubSeq(ev, Len(url) + 2, Len(ev))
    ELSE <<>>

\* the mutant of RelativePrefix that joins the two parts as the older script
\* does: no part is skipped and the result is not stripped
RelativePrefixPlainJoin(rel, base) ==
    IF Truthy(base)
    THEN Join(<<RStrip(rel, {"/"}), LStrip(base, {"/"})>>, <<"/">>)
    ELSE rel

\* the mutant of RelativePrefix that builds a prefix only when the descriptor
\* has a BASE_LOCATION
RelativePrefixBaseRequired(rel, base) ==
    IF Truthy(base)
    THEN Strip(Join(NonEmpty(<<RStrip(rel, {"/"}), Strip(base, {"/"})>>), <<"/">>), {"/"})
    ELSE <<>>

\* parts = []; if relative_from_ev: parts.append(relative_from_ev.rstrip("/"))
\* if base_location: parts.append(base_location.lstrip("/").rstrip("/"))
\* relative_prefix = "/".join([p for p in parts if p]).strip("/")
RelativePrefix(rel, base) ==
    LET parts1 == IF Truthy(rel) THEN <<RStrip(rel, {"/"})>> ELSE <<>>
        parts2 == IF Truthy(base)
                  THEN Append(parts1, RStrip(LStrip(base, {"/"}), {"/"}))
                  ELSE parts1
    IN  Strip(Join(NonEmpty(parts2), <<"/">>), {"/"})

\* the characters re.escape puts a backslash before, among those a path holds
PatternSpecial == {".", "*", "^", "$", "+", "?", "(", ")", "[", "]", "{", "}", "|", "\\"}

RECURSIVE ReEscape(_)
\* escaped = re.escape(relative_prefix)
ReEscape(s) ==
    IF s = <<>> THEN <<>>
    ELSE (IF s[1] \in PatternSpecial THEN <<"\\", s[1]>> ELSE <<s[1]>>)
         \o ReEscape(Tail(s))

\* ls_pattern = f"^{relative_prefix}.*" if relative_prefix else ".*"
\* (the script computes `escaped` and then formats relative_prefix itself)
LsPattern(prefix) ==
    IF prefix /= <<>> THEN <<"^">> \o prefix \o <<".", "*">> ELSE <<".", "*">>

\* ---------------------------------------- the listing collaborator's PATTERN
\* width of the atom at position i of a pattern: 2 for an escaped character
AtomWidth(re, i) == IF re[i] = "\\" /\ i < Len(re) THEN 2 ELSE 1

\* does the atom at position i accept the character c
AtomAccepts(re, i, c) ==
    IF re[i] = "\\" /\ i < Len(re) THEN c = re[i + 1]
    ELSE IF re[i] = "." THEN TRUE
    ELSE c = re[i]

RECURSIVE PatternValidFrom(_, _, _)
\* a '*' needs an atom before it that is not itself starred
PatternValidFrom(re, i, canStar) ==
    IF i > Len(re) THEN TRUE
    ELSE IF re[i] = "*" THEN canStar /\ PatternValidFrom(re, i + 1, FALSE)
    ELSE IF re[i] = "^" THEN PatternValidFrom(re, i + 1, FALSE)
    ELSE PatternValidFrom(re, i + AtomWidth(re, i), TRUE)

PatternValid(re) == PatternValidFrom(re, 1, FALSE)

RECURSIVE MatchFrom(_, _, _, _)
\* the pattern from position i matches the whole of s from position j
\* (PATTERN is a regular expression applied to the whole key)
MatchFrom(re, i, s, j) ==
    IF i > Len(re) THEN j > Len(s)
    ELSE IF re[i] = "^" THEN j = 1 /\ MatchFrom(re, i + 1, s, j)
    ELSE LET w == AtomWidth(re, i)
         IN  IF i + w <= Len(re) /\ re[i + w] = "*"
             THEN \E k \in 0..(Len(s) - j + 1) :
                     /\ \A m \in j..(j + k - 1) : AtomAccepts(re, i, s[m])
                     /\ MatchFrom(re, i + w + 1, s, j + k)
             ELSE /\ j <= Len(s)
                  /\ AtomAccepts(re, i, s[j])
                  /\ MatchFrom(re, i + w, s, j + 1)

\* LS @stage PATTERN='<re>' keeps the key
PatternMatches(re, key) == MatchFrom(re, 1, key, 1)

\* ------------------------------------------- file names, labels, search
\* the placeholder option of the file selectbox
SELECT_ONE == <<"Select One">>

Digits == <<"0", "1", "2", "3", "4", "5", "6", "7", "8", "9">>

RECURSIVE AsStr(_)
\* .astype(str) of a non-negative number
AsStr(n) == IF n < 10 THEN <<Digits[n + 1]>> ELSE AsStr(n \div 10) \o <<Digits[(n % 10) + 1]>>

LABEL_SEPARATOR == <<" ", "|", " ">>

\* files_df['LABEL'] = files_df['NAME'] + " | " + files_df['LAST_MODIFIED'].astype(str)
Label(row) == row.NAME \o LABEL_SEPARATOR \o AsStr(row.LAST_MODIFIED)

RECURSIVE BeforeSeparator(_)
\* label.split(" | ")[0]
BeforeSeparator(label) ==
    IF label = <<>> \/ StartsWith(label, LABEL_SEPARATOR) THEN <<>>
    ELSE <<label[1]>> \o BeforeSeparator(Tail(label))

\* if stage_url and path.startswith(stage_url): path[len(stage_url):].lstrip("/")
\* else: path.lstrip("/")
OnlyPath(path, url) ==
    IF Truthy(url) /\ StartsWith(path, url)
    THEN LStrip(SubSeq(path, Len(url) + 1, Len(path)), {"/"})
    ELSE LStrip(path, {"/"})

\* re.compile(partial_name) succeeds
SearchTextValid(text) == PatternValid(text)

\* NAME.str.contains(partial_name, case=False, na=False): the text is compiled
\* as a regular expression and searched for in the name, ignoring letter case
NameContains(name, text) ==
    PatternMatches(<<".", "*">> \o UpperStr(text) \o <<".", "*">>, UpperStr(name))

\* os.path.basename(path)
Basename(path) ==
    LET cuts == {k \in 1..Len(path) : path[k] = "/"}
    IN  IF cuts = {} THEN path
        ELSE SubSeq(path, (CHOOSE k \in cuts : \A h \in cuts : h <= k) + 1, Len(path))

\* os.path.splitext(name)[1]: from the last '.', unless only '.' stand before it
SplitExt(name) ==
    LET base == Basename(name)
        dots == {k \in 1..Len(base) : base[k] = "."}
    IN  IF dots = {} THEN <<>>
        ELSE LET last == CHOOSE k \in dots : \A h \in dots : h <= k
             IN  IF \A k \in 1..last : base[k] = "." THEN <<>>
                 ELSE SubSeq(base, last, Len(base))

\* file_ext = os.path.splitext(local_file_path)[1].lower().lstrip(".")
FileExt(path) == LStrip(LowerStr(SplitExt(path)), {"."})

EXT_json == <<"j", "s", "o", "n">>
EXT_ndjson == <<"n", "d", "j", "s", "o", "n">>
EXT_avro == <<"a", "v", "r", "o">>
EXT_parquet == <<"p", "a", "r", "q", "u", "e", "t">>

\* ------------------------------------------------- the summarization call
\* what the text-generation collaborator does with the statement: a row with
\* the MODEL_OUTPUT column, a row under another column name, no row, a row
\* without columns, or an exception (service error, timeout)
CortexOutcomes == {"answer", "other_column", "no_rows", "no_columns", "raises"}

MODEL_TEXT == <<"-", " ", "s", "u", "m", "m", "a", "r", "y">>
SKIPPED == <<"A", "I", " ", "s", "u", "m", "m", "a", "r", "y", " ", "s", "k", "i", "p", "p", "e", "d", ":", " ">>

\* str(e) of the exception the outcome ends in
ExceptionText(outcome) ==
    IF outcome = "raises" THEN <<"s", "e", "r", "v", "i", "c", "e", " ", "e", "r", "r", "o", "r">> ELSE <<"i", "n", "d", "e", "x", " ", "o", "u", "t", " ", "o", "f", " ", "b", "o", "u", "n", "d", "s">>

\* the mutant of SafeCortexCall without its try / except
SafeCortexCallUnguarded(outcome) ==
    IF outcome \in {"answer", "other_column"} THEN MODEL_TEXT ELSE RAISED

\* safe_cortex_call: df_ai.iloc[0]['MODEL_OUTPUT'] or df_ai.iloc[0,0];
\* except Exception as e: return f"AI summary skipped: {e}"
SafeCortexCall(outcome) ==
    IF outcome \in {"answer", "other_column"} THEN MODEL_TEXT
    ELSE SKIPPED \o ExceptionText(outcome)

\* ------------------------------------------------------------- the state
VARIABLES
    ddl,                   \* GET_DDL('TABLE', selected_table), NONE if the query raises
    volumes,               \* rows of APP_SETUP.EXTERNAL_VOLUME_PATHS
    stages,                \* rows of APP_SETUP.STAGE_PATHS with a STAGE_URL
    store,                 \* the objects the listing collaborator knows
    selected_stage,        \* older script: the stage submitted in the sidebar
    pc,                    \* the section of the script that runs next
    external_volume_name,
    catalog_name,
    base_location,
    ev_s3_path,
    resolved_stage,
    stage_url,
    relative_from_ev,
    relative_prefix,
    ls_pattern,
    ls_calls,              \* the LS statements sent to the listing collaborator
    files_df,              \* the listing after the side-file filter
    error,                 \* what st.error / st.warning / st.info reported last
    file_selection_method, \* the radio "Choose file selection method:"
    selected_file,         \* the selectbox "Select a File to View"
    partial_name,          \* the text input "Enter full or partial file name"
    selected_choice,       \* the selectbox "Multiple matches found", NONE if untouched
    parquet_view_choice,   \* the radio shown for a Parquet file
    read_file,             \* the button "Read File" was pressed for this run
    matched_files,         \* the rows whose NAME the search text was found in
    selected_file_only_path,
    tmp_dir,               \* the directory tempfile.mkdtemp made in this run
    scratch,               \* the sf_stage_ directories that exist, with their files
    file_ext,
    calls,                 \* the collaborators and extractors "Read File" invoked
    ai_summary,            \* what safe_cortex_call returned
    runs,                  \* the script runs of the session so far
    input,                 \* the argument of the helper function under study
    output,                \* what the helper function returned
    selected_db,           \* the selectbox "Select a Database"
    selected_table_choice, \* the selectbox "Select an Iceberg Table"
    submit_table,          \* the button "Submit Table" was pressed for this run
    previous_db,           \* st.session_state.previous_db, NONE while not set
    selected_table_final,  \* st.session_state.selected_table_final
    selected_table,        \* the finalized table the run works on
    dropped                \* the tables dropped from their database so far

\* argument and result of a helper function called on its own
pure == <<input, output>>

\* database and table selection: its widgets, st.session_state, the table
\* the run works on, and the tables dropped meanwhile
session ==
    <<selected_db, selected_table_choice, submit_table, previous_db,
      selected_table_final, selected_table, dropped>>

\* the widgets of "File Selection" and "Read and analyze file"
fileWidgets ==
    <<file_selection_method, selected_file, partial_name, selected_choice,
      parquet_view_choice, read_file>>

\* the widget values of a run and the session state
widgets == <<fileWidgets, session>>

\* what "File Selection" and "Read and analyze file" compute
readVars ==
    <<matched_files, selected_file_only_path, tmp_dir, scratch, file_ext, calls,
      ai_summary, runs>>

vars ==
    <<ddl, volumes, stages, store, selected_stage, pc, external_volume_name, catalog_name,
      base_location, ev_s3_path, resolved_stage, stage_url, relative_from_ev,
      relative_prefix, ls_pattern, ls_calls, files_df, error, widgets, readVars, pure>>

\* the value of resolved_stage before a stage is found
NoStage == "None"

NoError == [kind |-> "none", context |-> <<>>]

\* --------------------------------------------------------------- inputs
\* KEY = 'value', in the layout GET_DDL prints
Assign(key, value) == key \o <<" ", "=", " ", "'">> \o value \o <<"'">>

\* KEY<ws1>=<ws2><q1>value<q2>
AssignAs(key, ws1, ws2, q1, q2, value) ==
    key \o ws1 \o <<"=">> \o ws2 \o <<q1>> \o value \o <<q2>>

\* the head of a table definition
DdlHead == <<"T", "(", "c", ")">>

\* a table definition with the given assignments, one per line
DdlWith(assignments) == Join(<<DdlHead>> \o assignments, <<"\n">>)

VolumeRow(name, path) == [VOLUME_NAME |-> name, S3_PATH |-> path]
StageRow(name, url) == [STAGE_NAME |-> name, STAGE_URL |-> url]
ObjectRow(name, modified) == [NAME |-> name, LAST_MODIFIED |-> modified]

\* DATABASE_NAME.SCHEMA_NAME.STAGE_NAME of the i-th row of STAGE_PATHS
StageNames == <<"DB.S.M1", "DB.S.M2", "DB.S.M3", "DB.S.M4">>

\* every stage table of n rows over the given URLs
RECURSIVE StageTables(_, _)
StageTables(urls, n) ==
    IF n = 0 THEN {<<>>}
    ELSE LET shorter == StageTables(urls, n - 1)
         IN  shorter \cup
             {Append(t, StageRow(StageNames[Len(t) + 1], u)) :
                 t \in {x \in shorter : Len(x) = n - 1}, u \in urls}

PathChars == {"a", "/"}
ValueChars == {"a", "/", ".", "*"}

V == <<"V">>
TXT_a == <<"a">>
TXT_xy == <<"x", "/", "y">>
TXT_VOL1 == <<"V","O","L","1">>
TXT_store_bkt == <<"s","t","o","r","e",":","/","/","b","k","t">>
TXT_store_bkt_vol1 == TXT_store_bkt \o <<"/","v","o","l","1">>
TXT_db_t1 == <<"/","d","b","/","t","1","/">>
TXT_vol1_db_t1 == <<"v","o","l","1","/","d","b","/","t","1">>
TXT_s3_bucket == <<"s","3",":","/","/","b","u","c","k","e","t">>
TXT_mount_1 == TXT_s3_bucket \o <<"/","m","o","u","n","t","-","1">>
TXT_mount_10 == TXT_mount_1 \o <<"0">>
TXT_mount_10_x == TXT_mount_10 \o <<"/","x">>
TXT_bucket_a == TXT_s3_bucket \o <<"/","a">>
TXT_bucket_a_b == TXT_bucket_a \o <<"/","b">>

\* the objects of the store: data files and side-files under two tables
SomeStore ==
    << ObjectRow(<<"a", "/", "a">>, 1),
       ObjectRow(<<"a", "a">>, 2),
       ObjectRow(<<"a", "/", ".">>, 3) >>

StoreOfExample ==
    << ObjectRow(TXT_vol1_db_t1 \o <<"/","f">>, 1),
       ObjectRow(<<"v","o","l","1","/","d","b","/","t","2","/","f">>, 2) >>

\* stage matching: one volume, every S3_PATH and every stage table in bounds
InitMatch ==
    /\ ddl = DdlWith(<<Assign(KEY_EXTERNAL_VOLUME, V), Assign(KEY_BASE_LOCATION, TXT_a)>>)
    /\ \E path \in TextsUpTo(PathChars, MaxPathLen) : volumes = <<VolumeRow(V, path)>>
    /\ stages \in StageTables(TextsUpTo(PathChars, MaxUrlLen), MaxStages)
    /\ store = SomeStore

\* prefix building: every BASE_LOCATION value in bounds under a few volume roots
InitPrefix ==
    /\ \/ \E value \in TextsUpTo(ValueChars, MaxValLen) :
             ddl = DdlWith(<<Assign(KEY_EXTERNAL_VOLUME, V), Assign(KEY_BASE_LOCATION, value)>>)
       \/ ddl = DdlWith(<<Assign(KEY_EXTERNAL_VOLUME, V)>>)
    /\ \E path \in {<<"a">>, <<"a", "/", "a">>, <<"a", "/", "/", "a">>, <<"a", "/", ".">>} :
          volumes = <<VolumeRow(V, path)>>
    /\ stages = <<StageRow(StageNames[1], <<"a">>)>>
    /\ store = SomeStore

\* the worked examples of the design: VOL1 under store://bkt, the mount-1 /
\* mount-10 boundary, s3://bucket/a with s3://bucket/a/b
InitExamples ==
    \/ /\ ddl \in {DdlWith(<<Assign(KEY_EXTERNAL_VOLUME, TXT_VOL1),
                             Assign(KEY_BASE_LOCATION, TXT_db_t1)>>),
                   DdlWith(<<Assign(KEY_EXTERNAL_VOLUME, TXT_VOL1)>>),
                   DdlWith(<<Assign(KEY_BASE_LOCATION, TXT_db_t1)>>),
                   DdlWith(<<>>),
                   NONE}
       /\ volumes \in {<<VolumeRow(TXT_VOL1, TXT_store_bkt_vol1)>>,
                       <<VolumeRow(V, TXT_store_bkt_vol1)>>,
                       <<>>}
       /\ stages \in {<<StageRow(StageNames[1], TXT_store_bkt)>>,
                      <<StageRow(StageNames[1], TXT_store_bkt \o <<"/", "*">>)>>,
                      <<StageRow(StageNames[1], TXT_mount_1)>>,
                      <<>>}
       /\ store \in {StoreOfExample, <<>>}
    \/ /\ ddl = DdlWith(<<Assign(KEY_EXTERNAL_VOLUME, V), Assign(KEY_BASE_LOCATION, TXT_xy)>>)
       /\ volumes \in {<<VolumeRow(V, TXT_mount_10_x)>>,
                       <<VolumeRow(V, TXT_bucket_a_b)>>,
                       <<VolumeRow(V, TXT_bucket_a)>>}
       /\ stages \in StageTables({TXT_mount_1, TXT_mount_10, TXT_s3_bucket, TXT_bucket_a}, 2)
       /\ store = SomeStore

\* the spellings of a key: upper case, lower case, mixed
KeySpellings(key) ==
    {key, LowerStr(key),
     [k \in 1..Len(key) |-> IF k % 2 = 0 THEN LowerStr(key)[k] ELSE key[k]]}

\* the whitespace tried around the key, the '=' and the value
Gaps == {<<>>, <<" ">>, <<"\n">>, <<" ", "\n", "\t">>}

\* what may stand before and after the assignment in the definition
TextsBefore ==
    {<<>>, DdlHead \o <<" ">>,
     DdlWith(<<Assign(KEY_EXTERNAL_VOLUME, V)>>) \o <<"\n", " ">>}
TextsAfter == {<<>>, <<";">>, <<"\n">> \o Assign(KEY_CATALOG, <<"C">>) \o <<";">>}

\* every layout of BASE_LOCATION = 'x/y': key case, whitespace, quote characters
QuotedLayouts(key, value) ==
    {before \o AssignAs(spelling, ws1, ws2, q1, q2, value) \o after :
        before \in TextsBefore, spelling \in KeySpellings(key),
        ws1 \in Gaps, ws2 \in Gaps, q1 \in Quotes, q2 \in Quotes, after \in TextsAfter}

\* KEY<ws1>=<ws2>value<end>: the value without quotes
UnquotedLayouts(key, value) ==
    {before \o spelling \o ws1 \o <<"=">> \o ws2 \o value \o end \o after :
        before \in TextsBefore, spelling \in KeySpellings(key),
        ws1 \in {<<>>, <<" ">>}, ws2 \in {<<>>, <<" ">>},
        end \in {<<>>, <<",">>, <<" ", ",">>}, after \in TextsAfter}

\* BASE_LOCATION = 'x/y' in every quoted layout, and without quotes
QuotedXY == QuotedLayouts(KEY_BASE_LOCATION, TXT_xy)
UnquotedXY == UnquotedLayouts(KEY_BASE_LOCATION, TXT_xy)

\* descriptor layouts: the same assignment written in every way in bounds
InitLayouts ==
    /\ ddl \in QuotedXY \cup UnquotedXY
    /\ volumes = <<VolumeRow(V, <<"a">>)>>
    /\ stages = <<StageRow(StageNames[1], <<"a">>)>>
    /\ store = SomeStore

CleanChars == {"a", "/", "*"}

\* descriptor values: every EXTERNAL_VOLUME and CATALOG value in bounds
InitValues ==
    /\ \E value \in TextsUpTo(CleanChars, MaxValLen) :
          ddl \in {DdlWith(<<Assign(KEY_EXTERNAL_VOLUME, value),
                             Assign(KEY_CATALOG, <<"C">>)>>),
                   DdlWith(<<Assign(KEY_EXTERNAL_VOLUME, V),
                             Assign(KEY_CATALOG, value),
                             Assign(KEY_BASE_LOCATION, TXT_a)>>)}
    /\ volumes = <<VolumeRow(V, <<"a">>), VolumeRow(<<"a">>, <<"a", "/", "a">>)>>
    /\ stages = <<StageRow(StageNames[1], <<"a">>)>>
    /\ store = SomeStore

\* the mutant of IsSideFile that knows the checksum suffix only
IsSideFileCrcOnly(name) == EndsWith(name, <<".", "c", "r", "c">>)

\* NAME.str.endswith(('.crc', '.bin'))
IsSideFile(name) ==
    \/ EndsWith(name, <<".", "c", "r", "c">>)
    \/ EndsWith(name, <<".", "b", "i", "n">>)

\* files_df[~files_df['NAME'].str.endswith(('.crc', '.bin'))]
DropSideFiles(rows) == SelectSeq(rows, LAMBDA row : ~IsSideFile(row.NAME))

\* ------------------------------------------------- inputs: files and widgets
F_part0_parquet == <<"t", "/", "p", "a", "r", "t", "-", "0", ".", "p", "a", "r", "q", "u", "e", "t">>
F_part0_parquet_crc == <<"t", "/", "p", "a", "r", "t", "-", "0", ".", "p", "a", "r", "q", "u", "e", "t", ".", "c", "r", "c">>
F_x_bin == <<"t", "/", "x", ".", "b", "i", "n">>
F_m_json == <<"t", "/", "m", ".", "j", "s", "o", "n">>
F_K_JSON == <<"t", "/", "K", ".", "J", "S", "O", "N">>
F_s_avro == <<"t", "/", "s", ".", "a", "v", "r", "o">>
F_n_txt == <<"t", "/", "n", ".", "t", "x", "t">>
F_mxjson_txt == <<"t", "/", "m", "x", "j", "s", "o", "n", ".", "t", "x", "t">>
F_y_crc == <<"t", "/", "y", ".", "c", "r", "c">>

\* a table directory with data files of every family, side-files and a text file
FileStore ==
    << ObjectRow(F_part0_parquet, 1), ObjectRow(F_part0_parquet_crc, 1),
       ObjectRow(F_x_bin, 2), ObjectRow(F_m_json, 3), ObjectRow(F_K_JSON, 4),
       ObjectRow(F_s_avro, 5), ObjectRow(F_n_txt, 6), ObjectRow(F_mxjson_txt, 7) >>

\* a table directory that holds side-files only
SideFileStore == << ObjectRow(F_x_bin, 2), ObjectRow(F_y_crc, 3) >>

\* the texts typed into the search box
SearchTexts ==
    { <<>>, <<"p", "a", "r", "t">>, <<"t", "/">>, <<"z", "z">>, <<"k", ".", "j", "s", "o", "n">>, <<"m", ".", "j">>, <<"*">>, <<"M", ".", "J", "S", "O", "N">> }

ParquetViewChoices == {"Metadata Only", "Sample Data Only", "Both Metadata & Sample Data"}

\* a new session: each selectbox shows its first option, st.session_state is
\* empty, no table was dropped
NewSession ==
    /\ selected_db = SELECT_ONE
    /\ selected_table_choice = SELECT_ONE
    /\ submit_table = FALSE
    /\ previous_db = NONE
    /\ selected_table_final = NONE
    /\ selected_table = NONE
    /\ dropped = {}

\* the widgets as Streamlit draws them before the user touches any
DefaultWidgets ==
    /\ file_selection_method = "Dropdown"
    /\ selected_file = SELECT_ONE
    /\ partial_name = <<>>
    /\ selected_choice = NONE
    /\ parquet_view_choice = "Metadata Only"
    /\ read_file = FALSE

\* file selection and reading: table t under volume V, every widget value
InitFiles ==
    /\ ddl = DdlWith(<<Assign(KEY_EXTERNAL_VOLUME, V), Assign(KEY_BASE_LOCATION, <<"t">>)>>)
    /\ volumes = <<VolumeRow(V, <<"a">>)>>
    /\ stages = <<StageRow(StageNames[1], <<"a">>)>>
    /\ store \in {FileStore, SideFileStore}
    /\ \/ /\ file_selection_method = "Dropdown"
          /\ selected_file \in
                {SELECT_ONE} \cup {Label(DropSideFiles(store)[k]) : k \in 1..Len(DropSideFiles(store))}
          /\ partial_name = <<>>
          /\ selected_choice = NONE
       \/ /\ file_selection_method = "Search by Name"
          /\ selected_file = SELECT_ONE
          /\ partial_name \in SearchTexts
          /\ selected_choice \in {NONE, Label(ObjectRow(F_mxjson_txt, 7))}
    /\ parquet_view_choice \in ParquetViewChoices
    /\ read_file \in BOOLEAN

\* no helper function is called on its own
NoCall == input = NONE /\ output = NONE

\* the script's variables before its first statement
FreshRun ==
    /\ selected_stage = NoStage
    /\ external_volume_name = NONE
    /\ catalog_name = NONE
    /\ base_location = NONE
    /\ ev_s3_path = NONE
    /\ resolved_stage = NoStage
    /\ stage_url = NONE
    /\ relative_from_ev = NONE
    /\ relative_prefix = NONE
    /\ ls_pattern = NONE
    /\ ls_calls = <<>>
    /\ files_df = <<>>
    /\ error = NoError
    /\ matched_files = <<>>
    /\ selected_file_only_path = NONE
    /\ tmp_dir = NONE
    /\ scratch = {}
    /\ file_ext = NONE
    /\ calls = <<>>
    /\ ai_summary = NONE
    /\ runs = 1

InitRun == pc = "extract" /\ FreshRun

\* ------------------------------------------- the script, section by section
Stop(kind, context) ==
    /\ error' = [kind |-> kind, context |-> context]
    /\ pc' = "stopped"

\* the three re.search calls and the "Clean up" lines
ParseExternalVolume(text) == CleanUp(SearchQuoted(text, KEY_EXTERNAL_VOLUME))
ParseCatalog(text) == CleanUp(SearchQuoted(text, KEY_CATALOG))
ParseBaseLocation(text) == CleanUp(SearchQuoted(text, KEY_BASE_LOCATION))

\* "Extract DDL Details": GET_DDL answered
ExtractDDL ==
    /\ pc = "extract"
    /\ ddl /= NONE
    /\ external_volume_name' = ParseExternalVolume(ddl)
    /\ catalog_name' = ParseCatalog(ddl)
    /\ base_location' = ParseBaseLocation(ddl)
    /\ pc' = "resolve"
    /\ UNCHANGED <<pure, widgets, readVars, ddl, volumes, stages, store, selected_stage, ev_s3_path, resolved_stage, stage_url,
                   relative_from_ev, relative_prefix, ls_pattern, ls_calls, files_df,
                   error>>

\* "Extract DDL Details": GET_DDL raised; st.error, st.stop()
ExtractDDLFails ==
    /\ pc = "extract"
    /\ ddl = NONE
    /\ Stop("ErrorExtractingDDL", <<>>)
    /\ UNCHANGED <<pure, widgets, readVars, ddl, volumes, stages, store, selected_stage, external_volume_name, catalog_name,
                   base_location, ev_s3_path, resolved_stage, stage_url,
                   relative_from_ev, relative_prefix, ls_pattern, ls_calls, files_df>>

\* the mutant of VolumeLookup that selects without the WHERE clause
VolumeLookupAnyRow(name) == volumes

\* ev_df: the rows of EXTERNAL_VOLUME_PATHS WHERE VOLUME_NAME = name
VolumeLookup(name) == SelectSeq(volumes, LAMBDA row : row.VOLUME_NAME = name)

\* "Resolve Stage": if not external_volume_name: st.error, st.stop()
ResolveNoVolumeName ==
    /\ pc = "resolve"
    /\ ~Truthy(external_volume_name)
    /\ Stop("ExternalVolumeNameNotFound", <<>>)
    /\ UNCHANGED <<pure, widgets, readVars, ddl, volumes, stages, store, selected_stage, external_volume_name, catalog_name,
                   base_location, ev_s3_path, resolved_stage, stage_url,
                   relative_from_ev, relative_prefix, ls_pattern, ls_calls, files_df>>

\* "Resolve Stage": if ev_df.empty: st.error naming the volume, st.stop()
ResolveVolumeNotFound ==
    /\ pc = "resolve"
    /\ Truthy(external_volume_name)
    /\ VolumeLookup(external_volume_name) = <<>>
    /\ Stop("VolumeNotFound", external_volume_name)
    /\ UNCHANGED <<pure, widgets, readVars, ddl, volumes, stages, store, selected_stage, external_volume_name, catalog_name,
                   base_location, ev_s3_path, resolved_stage, stage_url,
                   relative_from_ev, relative_prefix, ls_pattern, ls_calls, files_df>>

\* "Resolve Stage": the loop found no stage; st.error with the path, st.stop()
ResolveMountNotResolved ==
    /\ pc = "resolve"
    /\ Truthy(external_volume_name)
    /\ VolumeLookup(external_volume_name) /= <<>>
    /\ LET ev == NormalizePath(VolumeLookup(external_volume_name)[1].S3_PATH)
       IN  /\ FindStage(stages, ev) = 0
           /\ ev_s3_path' = ev
           /\ Stop("MountNotResolved", ev)
    /\ UNCHANGED <<pure, widgets, readVars, ddl, volumes, stages, store, selected_stage, external_volume_name, catalog_name,
                   base_location, resolved_stage, stage_url, relative_from_ev,
                   relative_prefix, ls_pattern, ls_calls, files_df>>

\* "Resolve Stage": a stage matched; relative prefix and LS pattern are built
ResolveStage ==
    /\ pc = "resolve"
    /\ Truthy(external_volume_name)
    /\ VolumeLookup(external_volume_name) /= <<>>
    /\ LET ev == NormalizePath(VolumeLookup(external_volume_name)[1].S3_PATH)
           idx == FindStage(stages, ev)
       IN  /\ idx /= 0
           /\ LET url == NormalizePath(stages[idx].STAGE_URL)
                  rel == RelativeFromEv(ev, url)
                  prefix == RelativePrefix(rel, base_location)
              IN  /\ ev_s3_path' = ev
                  /\ resolved_stage' = stages[idx].STAGE_NAME
                  /\ stage_url' = url
                  /\ relative_from_ev' = rel
                  /\ relative_prefix' = prefix
                  /\ ls_pattern' = LsPattern(prefix)
    /\ pc' = "list"
    /\ UNCHANGED <<pure, widgets, readVars, ddl, volumes, stages, store, selected_stage, external_volume_name, catalog_name,
                   base_location, ls_calls, files_df, error>>

\* the statement f"LS @{resolved_stage} PATTERN='{ls_pattern}'"
LsStatement == [stage |-> resolved_stage, pattern |-> ls_pattern]

\* what the collaborator answers: the objects whose key the pattern matches
LsResult(pattern) == SelectSeq(store, LAMBDA row : PatternMatches(pattern, row.NAME))

\* "List files": the collaborator rejects the pattern; st.error, st.stop()
ListFilesFails ==
    /\ pc = "list"
    /\ ~PatternValid(ls_pattern)
    /\ ls_calls' = Append(ls_calls, LsStatement)
    /\ Stop("ErrorListingFiles", ls_pattern)
    /\ UNCHANGED <<pure, widgets, readVars, ddl, volumes, stages, store, selected_stage, external_volume_name, catalog_name,
                   base_location, ev_s3_path, resolved_stage, stage_url,
                   relative_from_ev, relative_prefix, ls_pattern, files_df>>

\* "List files": if files_df.empty: st.warning, st.stop()
ListFilesEmpty ==
    /\ pc = "list"
    /\ PatternValid(ls_pattern)
    /\ LsResult(ls_pattern) = <<>>
    /\ ls_calls' = Append(ls_calls, LsStatement)
    /\ Stop("NoFilesFound", relative_prefix)
    /\ UNCHANGED <<pure, widgets, readVars, ddl, volumes, stages, store, selected_stage, external_volume_name, catalog_name,
                   base_location, ev_s3_path, resolved_stage, stage_url,
                   relative_from_ev, relative_prefix, ls_pattern, files_df>>

\* "List files": the listing, without the side-files, is offered for selection
ListFiles ==
    /\ pc = "list"
    /\ PatternValid(ls_pattern)
    /\ LsResult(ls_pattern) /= <<>>
    /\ ls_calls' = Append(ls_calls, LsStatement)
    /\ files_df' = DropSideFiles(LsResult(ls_pattern))
    /\ pc' = "select"
    /\ UNCHANGED <<pure, widgets, readVars, ddl, volumes, stages, store, selected_stage, external_volume_name, catalog_name,
                   base_location, ev_s3_path, resolved_stage, stage_url,
                   relative_from_ev, relative_prefix, ls_pattern, error>>

\* ---------------------------------------------------------- File Selection
\* the rows of files_df whose NAME the search text is found in
MatchedFiles(rows, text) == SelectSeq(rows, LAMBDA row : NameContains(row.NAME, text))

\* the options of the file selectbox after 'Select One' (sorted(...) orders
\* them; the choice is made by value)
FileLabels == {Label(files_df[k]) : k \in 1..Len(files_df)}

\* the value of the "Multiple matches found" selectbox: the option chosen, or
\* the first option while the user has not chosen
ChoiceAmong(rows) ==
    IF \E k \in 1..Len(rows) : Label(rows[k]) = selected_choice
    THEN selected_choice
    ELSE Label(rows[1])

\* "Dropdown": 'Select One' is still selected; st.info, st.stop()
SelectDropdownNone ==
    /\ pc = "select"
    /\ file_selection_method = "Dropdown"
    /\ selected_file \notin FileLabels
    /\ Stop("SelectAFile", <<>>)
    /\ UNCHANGED <<pure, widgets, readVars, ddl, volumes, stages, store, selected_stage,
                   external_volume_name, catalog_name, base_location, ev_s3_path,
                   resolved_stage, stage_url, relative_from_ev, relative_prefix,
                   ls_pattern, ls_calls, files_df>>

\* "Dropdown": a label is selected
SelectDropdown ==
    /\ pc = "select"
    /\ file_selection_method = "Dropdown"
    /\ selected_file \in FileLabels
    /\ selected_file_only_path' = OnlyPath(BeforeSeparator(selected_file), stage_url)
    /\ pc' = "read"
    /\ UNCHANGED <<pure, widgets, matched_files, tmp_dir, scratch, file_ext, calls, ai_summary, runs,
                   ddl, volumes, stages, store, selected_stage,
                   external_volume_name, catalog_name, base_location, ev_s3_path,
                   resolved_stage, stage_url, relative_from_ev, relative_prefix,
                   ls_pattern, ls_calls, files_df, error>>

\* "Search by Name": nothing typed, selected_file_only_path stays None
SearchBlank ==
    /\ pc = "select"
    /\ file_selection_method = "Search by Name"
    /\ ~Truthy(partial_name)
    /\ pc' = "read"
    /\ UNCHANGED <<pure, widgets, readVars, ddl, volumes, stages, store, selected_stage,
                   external_volume_name, catalog_name, base_location, ev_s3_path,
                   resolved_stage, stage_url, relative_from_ev, relative_prefix,
                   ls_pattern, ls_calls, files_df, error>>

\* "Search by Name": str.contains raises re.error outside every try block; the
\* run ends with the exception
SearchRaises ==
    /\ pc = "select"
    /\ file_selection_method = "Search by Name"
    /\ Truthy(partial_name)
    /\ ~SearchTextValid(partial_name)
    /\ Stop("UncaughtException", partial_name)
    /\ UNCHANGED <<pure, widgets, readVars, ddl, volumes, stages, store, selected_stage,
                   external_volume_name, catalog_name, base_location, ev_s3_path,
                   resolved_stage, stage_url, relative_from_ev, relative_prefix,
                   ls_pattern, ls_calls, files_df>>

\* "Search by Name": if matched_files.empty: st.warning, st.stop()
SearchNoMatch ==
    /\ pc = "select"
    /\ file_selection_method = "Search by Name"
    /\ Truthy(partial_name)
    /\ SearchTextValid(partial_name)
    /\ MatchedFiles(files_df, partial_name) = <<>>
    /\ Stop("NoFilesMatch", partial_name)
    /\ UNCHANGED <<pure, widgets, readVars, ddl, volumes, stages, store, selected_stage,
                   external_volume_name, catalog_name, base_location, ev_s3_path,
                   resolved_stage, stage_url, relative_from_ev, relative_prefix,
                   ls_pattern, ls_calls, files_df>>

\* "Search by Name": elif len(matched_files) == 1: the match is selected
SearchSingle ==
    /\ pc = "select"
    /\ file_selection_method = "Search by Name"
    /\ Truthy(partial_name)
    /\ SearchTextValid(partial_name)
    /\ Len(MatchedFiles(files_df, partial_name)) = 1
    /\ matched_files' = MatchedFiles(files_df, partial_name)
    /\ selected_file_only_path' =
          OnlyPath(MatchedFiles(files_df, partial_name)[1].NAME, stage_url)
    /\ error' = [kind |-> "AutoSelected", context |-> MatchedFiles(files_df, partial_name)[1].NAME]
    /\ pc' = "read"
    /\ UNCHANGED <<pure, widgets, tmp_dir, scratch, file_ext, calls, ai_summary, runs,
                   ddl, volumes, stages, store, selected_stage,
                   external_volume_name, catalog_name, base_location, ev_s3_path,
                   resolved_stage, stage_url, relative_from_ev, relative_prefix,
                   ls_pattern, ls_calls, files_df>>

\* "Search by Name": else: the selectbox over the matches gives the file
SearchMultiple ==
    /\ pc = "select"
    /\ file_selection_method = "Search by Name"
    /\ Truthy(partial_name)
    /\ SearchTextValid(partial_name)
    /\ Len(MatchedFiles(files_df, partial_name)) > 1
    /\ matched_files' = MatchedFiles(files_df, partial_name)
    /\ selected_file_only_path' =
          OnlyPath(BeforeSeparator(ChoiceAmong(MatchedFiles(files_df, partial_name))), stage_url)
    /\ pc' = "read"
    /\ UNCHANGED <<pure, widgets, tmp_dir, scratch, file_ext, calls, ai_summary, runs,
                   ddl, volumes, stages, store, selected_stage,
                   external_volume_name, catalog_name, base_location, ev_s3_path,
                   resolved_stage, stage_url, relative_from_ev, relative_prefix,
                   ls_pattern, ls_calls, files_df, error>>

\* ------------------------------------------------- Read and analyze file
\* one entry of calls: a collaborator or extractor and how the call ended
Call(name, outcome) == [name |-> name, outcome |-> outcome]

\* except Exception as e: st.error(f"Error reading or analyzing file: {e}")
ReadError(step) == [kind |-> "ErrorReadingFile", context |-> step]

\* the button was not pressed: the script ends after drawing it
ReadNotClicked ==
    /\ pc = "read"
    /\ ~read_file
    /\ pc' = "done"
    /\ UNCHANGED <<pure, widgets, readVars, ddl, volumes, stages, store, selected_stage,
                   external_volume_name, catalog_name, base_location, ev_s3_path,
                   resolved_stage, stage_url, relative_from_ev, relative_prefix,
                   ls_pattern, ls_calls, files_df, error>>

\* if not selected_file_only_path: st.warning("No file selected."), st.stop()
ReadNoFileSelected ==
    /\ pc = "read"
    /\ read_file
    /\ ~Truthy(selected_file_only_path)
    /\ Stop("NoFileSelected", <<>>)
    /\ UNCHANGED <<pure, widgets, readVars, ddl, volumes, stages, store, selected_stage,
                   external_volume_name, catalog_name, base_location, ev_s3_path,
                   resolved_stage, stage_url, relative_from_ev, relative_prefix,
                   ls_pattern, ls_calls, files_df>>

\* the directory mkdtemp makes in this run; no two runs get the same name
NewTmpDir == <<"sf_stage_", runs>>

\* tmp_dir = tempfile.mkdtemp(prefix="sf_stage_"); local_file_path; file_ext
ReadBegin ==
    /\ pc = "read"
    /\ read_file
    /\ Truthy(selected_file_only_path)
    /\ tmp_dir' = NewTmpDir
    /\ scratch' = scratch \cup {[dir |-> NewTmpDir, files |-> {}]}
    /\ file_ext' = FileExt(selected_file_only_path)
    /\ pc' = "download"
    /\ UNCHANGED <<pure, widgets, matched_files, selected_file_only_path, calls, ai_summary, runs,
                   ddl, volumes, stages, store, selected_stage,
                   external_volume_name, catalog_name, base_location, ev_s3_path,
                   resolved_stage, stage_url, relative_from_ev, relative_prefix,
                   ls_pattern, ls_calls, files_df, error>>

\* the scratch directories after a file is written into tmp_dir
WithFile(dirs, d, name) ==
    {IF x.dir = d THEN [x EXCEPT !.files = @ \cup {name}] ELSE x : x \in dirs}

\* session.file.get(f"@{resolved_stage}/{selected_file_only_path}", tmp_dir)
DownloadFile ==
    /\ pc = "download"
    /\ calls' = Append(calls, Call("file.get", "ok"))
    /\ scratch' = WithFile(scratch, tmp_dir, Basename(selected_file_only_path))
    /\ pc' = "analyze"
    /\ UNCHANGED <<pure, widgets, matched_files, selected_file_only_path, tmp_dir, file_ext,
                   ai_summary, runs, ddl, volumes, stages, store, selected_stage,
                   external_volume_name, catalog_name, base_location, ev_s3_path,
                   resolved_stage, stage_url, relative_from_ev, relative_prefix,
                   ls_pattern, ls_calls, files_df, error>>

\* session.file.get raises: except Exception: st.error; then the finally block
DownloadFails ==
    /\ pc = "download"
    /\ calls' = Append(calls, Call("file.get", "raises"))
    /\ error' = ReadError("file.get")
    /\ pc' = "cleanup"
    /\ UNCHANGED <<pure, widgets, matched_files, selected_file_only_path, tmp_dir, scratch, file_ext,
                   ai_summary, runs, ddl, volumes, stages, store, selected_stage,
                   external_volume_name, catalog_name, base_location, ev_s3_path,
                   resolved_stage, stage_url, relative_from_ev, relative_prefix,
                   ls_pattern, ls_calls, files_df>>

\* with st.expander("AI Summary"): ai_summary = safe_cortex_call(...); st.text
\* after the calls made so far; an exception out of it ends the try block
Summarize(made, outcome) ==
    LET summary == SafeCortexCall(outcome)
    IN  /\ calls' = made \o <<Call("cortex", outcome)>>
        /\ IF summary = RAISED
           THEN /\ error' = ReadError("cortex")
                /\ UNCHANGED ai_summary
           ELSE /\ ai_summary' = summary
                /\ UNCHANGED error

\* if file_ext in ["json", "ndjson"] / elif file_ext == "avro": the records
\* are read (open, json.load or fastavro.reader may raise), shown, summarized
AnalyzeRecords(extractor) ==
    /\ pc = "analyze"
    /\ \E readable \in BOOLEAN, outcome \in CortexOutcomes :
          IF readable
          THEN Summarize(calls \o <<Call(extractor, "ok"),
                                    Call("render_json_avro_view", "ok")>>, outcome)
          ELSE /\ calls' = Append(calls, Call(extractor, "raises"))
               /\ error' = ReadError(extractor)
               /\ UNCHANGED ai_summary
    /\ pc' = "cleanup"
    /\ UNCHANGED <<pure, widgets, matched_files, selected_file_only_path, tmp_dir, scratch, file_ext,
                   runs, ddl, volumes, stages, store, selected_stage,
                   external_volume_name, catalog_name, base_location, ev_s3_path,
                   resolved_stage, stage_url, relative_from_ev, relative_prefix,
                   ls_pattern, ls_calls, files_df>>

AnalyzeJson ==
    /\ file_ext \in {EXT_json, EXT_ndjson}
    /\ AnalyzeRecords("json.load")

AnalyzeAvro ==
    /\ file_ext = EXT_avro
    /\ AnalyzeRecords("fastavro.reader")

\* the calls of the "Metadata Only" / "Both" block
MetadataCalls ==
    IF parquet_view_choice \in {"Metadata Only", "Both Metadata & Sample Data"}
    THEN <<Call("show_parquet_metadata", "ok"), Call("render_parquet_view", "ok")>>
    ELSE <<>>

\* elif file_ext == "parquet": metadata view, AI summary, sample data; the
\* file either can be read as Parquet by pyarrow or cannot
AnalyzeParquet ==
    /\ pc = "analyze"
    /\ file_ext = EXT_parquet
    /\ \E readable \in BOOLEAN, outcome \in CortexOutcomes, sample \in {"ok", "raises"} :
          IF ~readable
          THEN /\ calls' = Append(calls, Call("show_parquet_metadata", "raises"))
               /\ error' = ReadError("show_parquet_metadata")
               /\ UNCHANGED ai_summary
          ELSE IF SafeCortexCall(outcome) = RAISED
               \/ parquet_view_choice = "Metadata Only"
          THEN Summarize(calls \o MetadataCalls \o <<Call("show_parquet_metadata", "ok")>>,
                         outcome)
          ELSE /\ calls' = calls \o MetadataCalls
                              \o <<Call("show_parquet_metadata", "ok"),
                                   Call("cortex", outcome),
                                   Call("pd.read_parquet", sample)>>
               /\ ai_summary' = SafeCortexCall(outcome)
               /\ IF sample = "raises"
                  THEN error' = ReadError("pd.read_parquet")
                  ELSE UNCHANGED error
    /\ pc' = "cleanup"
    /\ UNCHANGED <<pure, widgets, matched_files, selected_file_only_path, tmp_dir, scratch, file_ext,
                   runs, ddl, volumes, stages, store, selected_stage,
                   external_volume_name, catalog_name, base_location, ev_s3_path,
                   resolved_stage, stage_url, relative_from_ev, relative_prefix,
                   ls_pattern, ls_calls, files_df>>

\* else: st.warning(f"Unsupported file type: .{file_ext}")
AnalyzeUnsupported ==
    /\ pc = "analyze"
    /\ file_ext \notin {EXT_json, EXT_ndjson, EXT_avro, EXT_parquet}
    /\ error' = [kind |-> "UnsupportedFileType", context |-> <<".">> \o file_ext]
    /\ pc' = "cleanup"
    /\ UNCHANGED <<pure, widgets, readVars, ddl, volumes, stages, store, selected_stage,
                   external_volume_name, catalog_name, base_location, ev_s3_path,
                   resolved_stage, stage_url, relative_from_ev, relative_prefix,
                   ls_pattern, ls_calls, files_df>>

\* the mutant of RemoveTree that removes the files and leaves the directory
RemoveTreeFilesOnly(dirs, d) ==
    {IF x.dir = d THEN [x EXCEPT !.files = {}] ELSE x : x \in dirs}

\* shutil.rmtree(tmp_dir): the directory and what it holds
RemoveTree(dirs, d) == {x \in dirs : x.dir /= d}

\* finally: try: shutil.rmtree(tmp_dir) except Exception: pass
Cleanup ==
    /\ pc = "cleanup"
    /\ scratch' = RemoveTree(scratch, tmp_dir)
    /\ pc' = "done"
    /\ UNCHANGED <<pure, widgets, matched_files, selected_file_only_path, tmp_dir, file_ext,
                   calls, ai_summary, runs, ddl, volumes, stages, store, selected_stage,
                   external_volume_name, catalog_name, base_location, ev_s3_path,
                   resolved_stage, stage_url, relative_from_ev, relative_prefix,
                   ls_pattern, ls_calls, files_df, error>>

\* the user presses "Read File" again (or touches a widget without changing
\* its value): Streamlit runs the script from the top; the directories on disk
\* outlive the run, the script's variables do not
Rerun ==
    /\ pc \in {"done", "stopped"}
    /\ runs < MaxRuns
    /\ runs' = runs + 1
    /\ pc' = "extract"
    /\ external_volume_name' = NONE
    /\ catalog_name' = NONE
    /\ base_location' = NONE
    /\ ev_s3_path' = NONE
    /\ resolved_stage' = NoStage
    /\ stage_url' = NONE
    /\ relative_from_ev' = NONE
    /\ relative_prefix' = NONE
    /\ ls_pattern' = NONE
    /\ ls_calls' = <<>>
    /\ files_df' = <<>>
    /\ error' = NoError
    /\ matched_files' = <<>>
    /\ selected_file_only_path' = NONE
    /\ tmp_dir' = NONE
    /\ file_ext' = NONE
    /\ calls' = <<>>
    /\ ai_summary' = NONE
    /\ UNCHANGED <<pure, widgets, scratch, ddl, volumes, stages, store, selected_stage>>

Init ==
    /\ InitRun
    /\ NoCall
    /\ NewSession
    /\ \/ DefaultWidgets /\ (InitMatch \/ InitPrefix \/ InitExamples \/ InitLayouts \/ InitValues)
       \/ InitFiles

Next ==
    \/ ExtractDDL
    \/ ExtractDDLFails
    \/ ResolveNoVolumeName
    \/ ResolveVolumeNotFound
    \/ ResolveMountNotResolved
    \/ ResolveStage
    \/ ListFilesFails
    \/ ListFilesEmpty
    \/ ListFiles
    \/ SelectDropdownNone
    \/ SelectDropdown
    \/ SearchBlank
    \/ SearchRaises
    \/ SearchNoMatch
    \/ SearchSingle
    \/ SearchMultiple
    \/ ReadNotClicked
    \/ ReadNoFileSelected
    \/ ReadBegin
    \/ DownloadFile
    \/ DownloadFails
    \/ AnalyzeJson
    \/ AnalyzeAvro
    \/ AnalyzeParquet
    \/ AnalyzeUnsupported
    \/ Cleanup
    \/ Rerun

Spec == Init /\ [][Next]_vars

\* ------------------------------------------------ the older, root-level script
\* st.error and st.stop() in the older script
LegacyStop(kind, context) ==
    /\ error' = [kind |-> kind, context |-> context]
    /\ pc' = "legacy_stopped"

\* the position of the first character of text at or after j that is in chars,
\* or Len(text) + 1
RECURSIVE FindChar(_, _, _)
FindChar(text, j, chars) ==
    IF j <= Len(text) /\ text[j] \notin chars THEN FindChar(text, j + 1, chars) ELSE j

RECURSIVE SplitLines(_)
\* ddl.splitlines(), on the line ends \n, \r and \r\n
SplitLines(text) ==
    IF text = <<>> THEN <<>>
    ELSE LET brk == FindChar(text, 1, {"\n", "\r"})
             width == IF /\ brk < Len(text)
                         /\ text[brk] = "\r"
                         /\ text[brk + 1] = "\n"
                      THEN 2 ELSE 1
         IN  <<SubSeq(text, 1, brk - 1)>> \o SplitLines(SubSeq(text, brk + width, Len(text)))

RECURSIVE SplitOn(_, _)
\* line.split(sep) for a one-character separator
SplitOn(line, sep) ==
    LET at == FindChar(line, 1, {sep})
    IN  IF at > Len(line) THEN <<line>>
        ELSE <<SubSeq(line, 1, at - 1)>> \o SplitOn(SubSeq(line, at + 1, Len(line)), sep)

\* the characters of .strip(" '\"\t,")
FallbackStripChars == {" ", "'", "\"", "\t", ","}

\* the mutant of LegacyLineScan that takes the text after the '=' as it is
LegacyLineScanUnstripped(text) ==
    LET lines == SplitLines(text)
        hits == {i \in 1..Len(lines) : Contains(UpperStr(lines[i]), KEY_BASE_LOCATION)}
    IN  IF hits = {} THEN NONE
        ELSE LET pieces == SplitOn(lines[CHOOSE i \in hits : \A h \in hits : i <= h], "=")
             IN  IF Len(pieces) < 2 THEN RAISED ELSE pieces[2]

\* for line in ddl.splitlines():
\*     if "BASE_LOCATION" in line.upper():
\*         base_location = line.split("=")[1].strip(" '\"\t,"); break
\* NONE when no line holds the key, RAISED when the line has no '='
LegacyLineScan(text) ==
    LET lines == SplitLines(text)
        hits == {i \in 1..Len(lines) : Contains(UpperStr(lines[i]), KEY_BASE_LOCATION)}
    IN  IF hits = {} THEN NONE
        ELSE LET pieces == SplitOn(lines[CHOOSE i \in hits : \A h \in hits : i <= h], "=")
             IN  IF Len(pieces) < 2 THEN RAISED
                 ELSE Strip(pieces[2], FallbackStripChars)

\* base_location before the final rstrip: the quoted match, else the line scan
LegacyBaseLocationOf(text) ==
    IF Truthy(SearchQuoted(text, KEY_BASE_LOCATION))
    THEN SearchQuoted(text, KEY_BASE_LOCATION)
    ELSE LegacyLineScan(text)

\* "BASE_LOCATION": found; base_location = base_location.rstrip("/")
LegacyBaseLocation ==
    /\ pc = "legacy_base"
    /\ ddl /= NONE
    /\ LegacyBaseLocationOf(ddl) /= RAISED
    /\ Truthy(LegacyBaseLocationOf(ddl))
    /\ base_location' = RStrip(LegacyBaseLocationOf(ddl), {"/"})
    /\ pc' = "legacy_resolve"
    /\ UNCHANGED <<pure, widgets, readVars, ddl, volumes, stages, store, selected_stage, external_volume_name,
                   catalog_name, ev_s3_path, resolved_stage, stage_url, relative_from_ev,
                   relative_prefix, ls_pattern, ls_calls, files_df, error>>

\* "BASE_LOCATION": if not base_location: st.error, st.code(ddl), st.stop()
LegacyBaseLocationNotFound ==
    /\ pc = "legacy_base"
    /\ ddl /= NONE
    /\ LegacyBaseLocationOf(ddl) /= RAISED
    /\ ~Truthy(LegacyBaseLocationOf(ddl))
    /\ base_location' = LegacyBaseLocationOf(ddl)
    /\ LegacyStop("BaseLocationNotFound", <<>>)
    /\ UNCHANGED <<pure, widgets, readVars, ddl, volumes, stages, store, selected_stage, external_volume_name,
                   catalog_name, ev_s3_path, resolved_stage, stage_url, relative_from_ev,
                   relative_prefix, ls_pattern, ls_calls, files_df>>

\* "BASE_LOCATION": GET_DDL raised, or line.split("=")[1] raised IndexError
LegacyBaseLocationFails ==
    /\ pc = "legacy_base"
    /\ ddl = NONE \/ LegacyBaseLocationOf(ddl) = RAISED
    /\ LegacyStop("ErrorExtractingBaseLocation", <<>>)
    /\ UNCHANGED <<pure, widgets, readVars, ddl, volumes, stages, store, selected_stage, external_volume_name,
                   catalog_name, base_location, ev_s3_path, resolved_stage, stage_url,
                   relative_from_ev, relative_prefix, ls_pattern, ls_calls, files_df>>

\* "Resolve External Volume": ev_match is None; st.error, st.code(ddl), st.stop()
LegacyNoExternalVolume ==
    /\ pc = "legacy_resolve"
    /\ ~Truthy(SearchQuoted(ddl, KEY_EXTERNAL_VOLUME))
    /\ external_volume_name' = SearchQuoted(ddl, KEY_EXTERNAL_VOLUME)
    /\ LegacyStop("ExternalVolumeNameNotFound", <<>>)
    /\ UNCHANGED <<pure, widgets, readVars, ddl, volumes, stages, store, selected_stage, catalog_name,
                   base_location, ev_s3_path, resolved_stage, stage_url, relative_from_ev,
                   relative_prefix, ls_pattern, ls_calls, files_df>>

\* ev_df['S3_PATH'].iloc[0].rstrip("/") if not ev_df.empty else None
LegacyVolumePath(name) ==
    IF VolumeLookup(name) = <<>> THEN NONE
    ELSE RStrip(VolumeLookup(name)[1].S3_PATH, {"/"})

\* "Resolve External Volume": if not ev_s3_path: st.error, st.stop()
LegacyVolumeNotFound ==
    /\ pc = "legacy_resolve"
    /\ Truthy(SearchQuoted(ddl, KEY_EXTERNAL_VOLUME))
    /\ external_volume_name' = SearchQuoted(ddl, KEY_EXTERNAL_VOLUME)
    /\ ~Truthy(LegacyVolumePath(external_volume_name'))
    /\ ev_s3_path' = LegacyVolumePath(external_volume_name')
    /\ LegacyStop("VolumeNotFound", external_volume_name')
    /\ UNCHANGED <<pure, widgets, readVars, ddl, volumes, stages, store, selected_stage, catalog_name,
                   base_location, resolved_stage, stage_url, relative_from_ev,
                   relative_prefix, ls_pattern, ls_calls, files_df>>

\* stage_row['URL'].iloc[0].rstrip("/") if not stage_row.empty else ""
LegacyStageUrl ==
    LET rows == SelectSeq(stages, LAMBDA row : row.STAGE_NAME = selected_stage)
    IN  IF rows = <<>> THEN <<>> ELSE RStrip(rows[1].STAGE_URL, {"/"})

\* ev_s3_path.split('/', 3)[-1]
SplitThreeLast(path) ==
    LET pieces == SplitOn(path, "/")
    IN  IF Len(pieces) <= 4 THEN pieces[Len(pieces)]
        ELSE Join(SubSeq(pieces, 4, Len(pieces)), <<"/">>)

\* the prefix under the selected stage, else the text after the third '/';
\* then "/".join([relative_prefix.rstrip("/"), base_location.lstrip("/")])
LegacyRelativePrefix(ev, url, base) ==
    LET slash == IF EndsWith(url, <<"/">>) THEN url ELSE url \o <<"/">>
        rel == IF StartsWith(ev, slash)
               THEN SubSeq(ev, Len(slash) + 1, Len(ev))
               ELSE SplitThreeLast(ev)
    IN  IF Truthy(base)
        THEN Join(<<RStrip(rel, {"/"}), LStrip(base, {"/"})>>, <<"/">>)
        ELSE rel

\* "Resolve External Volume and LS pattern": ls_pattern = f"{relative_prefix}.*"
LegacyResolve ==
    /\ pc = "legacy_resolve"
    /\ Truthy(SearchQuoted(ddl, KEY_EXTERNAL_VOLUME))
    /\ external_volume_name' = SearchQuoted(ddl, KEY_EXTERNAL_VOLUME)
    /\ Truthy(LegacyVolumePath(external_volume_name'))
    /\ ev_s3_path' = RStrip(RStrip(RStrip(LegacyVolumePath(external_volume_name'),
                                          {"/"}), {"/", "*"}), {"/"})
    /\ stage_url' = LegacyStageUrl
    /\ relative_prefix' = LegacyRelativePrefix(ev_s3_path', stage_url', base_location)
    /\ ls_pattern' = relative_prefix' \o <<".", "*">>
    /\ pc' = "legacy_list"
    /\ UNCHANGED <<pure, widgets, readVars, ddl, volumes, stages, store, selected_stage, catalog_name,
                   base_location, resolved_stage, relative_from_ev, ls_calls, files_df,
                   error>>

\* the assignment EXTERNAL_VOLUME = V without quotes
UnquotedVolume == UnquotedLayouts(KEY_EXTERNAL_VOLUME, V)

\* descriptors whose BASE_LOCATION line holds no '=', a second '=', or nothing
OddBaseLocationLines ==
    {DdlWith(<<Assign(KEY_EXTERNAL_VOLUME, V), KEY_BASE_LOCATION \o <<" ">> \o TXT_xy>>),
     DdlWith(<<Assign(KEY_EXTERNAL_VOLUME, V),
               KEY_BASE_LOCATION \o <<" ", "=", " ">> \o TXT_xy \o <<"/", ",", " ">>
                   \o KEY_CATALOG \o <<" ", "=", " ", "C">>>>),
     DdlWith(<<Assign(KEY_EXTERNAL_VOLUME, V), KEY_BASE_LOCATION \o <<" ", "=", " ", ",">>>>),
     DdlWith(<<Assign(KEY_EXTERNAL_VOLUME, V), Assign(KEY_BASE_LOCATION, <<"/">>)>>),
     DdlWith(<<<<"-", "-", " ">> \o LowerStr(KEY_BASE_LOCATION),
               Assign(KEY_BASE_LOCATION, TXT_xy)>>),
     DdlWith(<<Assign(KEY_EXTERNAL_VOLUME, V)>>),
     NONE}

LegacyInit ==
    /\ InitRun
    /\ NoCall
    /\ NewSession
    /\ DefaultWidgets
    /\ ddl \in QuotedXY \cup UnquotedXY
               \cup {DdlWith(<<Assign(KEY_BASE_LOCATION, TXT_xy)>>) \o <<"\n">> \o t :
                        t \in UnquotedVolume}
               \cup OddBaseLocationLines
    /\ volumes \in {<<VolumeRow(V, TXT_bucket_a_b \o <<"/">>)>>, <<>>}
    /\ stages = <<StageRow(StageNames[1], TXT_bucket_a)>>
    /\ store = SomeStore

\* the sidebar's "Submit Stage" leaves a stage, or none, before the run
LegacyStart ==
    /\ pc = "extract"
    /\ \E stage \in {NoStage, StageNames[1]} : selected_stage' = stage
    /\ pc' = "legacy_base"
    /\ UNCHANGED <<pure, widgets, readVars, ddl, volumes, stages, store, external_volume_name, catalog_name,
                   base_location, ev_s3_path, resolved_stage, stage_url, relative_from_ev,
                   relative_prefix, ls_pattern, ls_calls, files_df, error>>

LegacyNext ==
    \/ LegacyStart
    \/ LegacyBaseLocation
    \/ LegacyBaseLocationNotFound
    \/ LegacyBaseLocationFails
    \/ LegacyNoExternalVolume
    \/ LegacyVolumeNotFound
    \/ LegacyResolve

\* the descriptor sections of both scripts, run on the same definitions
ParserNext == ExtractDDL \/ ExtractDDLFails \/ LegacyNext

ParserSpec == LegacyInit /\ [][ParserNext]_vars

\* ======================================== helper functions called on their own
\* every variable of the script at rest while a helper function is studied
ScriptAtRest ==
    /\ FreshRun
    /\ DefaultWidgets
    /\ ddl = NONE
    /\ volumes = <<>>
    /\ stages = <<>>
    /\ store = <<>>

AtRest == ScriptAtRest /\ NewSession

\* --------------------------------------------- the json/ndjson record reader
\* longest enumerated file text
MaxFileLen == 4

\* whitespace between the tokens of a JSON text
JsonWhitespace == {" ", "\t", "\n", "\r"}

DigitChars == {Digits[k] : k \in 1..Len(Digits)}

RECURSIVE SkipJsonWhitespace(_, _)
SkipJsonWhitespace(text, i) ==
    IF i <= Len(text) /\ text[i] \in JsonWhitespace
    THEN SkipJsonWhitespace(text, i + 1)
    ELSE i

RECURSIVE SkipDigits(_, _)
SkipDigits(text, i) ==
    IF i <= Len(text) /\ text[i] \in DigitChars THEN SkipDigits(text, i + 1) ELSE i

\* the position after the string that opens at i, 0 when it does not close
\* or holds a line end or tab (strings hold no escapes in the modelled files)
StringEnd(text, i) ==
    LET close == FindChar(text, i + 1, {"\""})
    IN  IF close > Len(text) THEN 0
        ELSE IF \E k \in (i + 1)..(close - 1) : text[k] \in {"\n", "\r", "\t"} THEN 0
        ELSE close + 1

RECURSIVE ValueEnd(_, _), ElementsEnd(_, _), MembersEnd(_, _)
\* json's scanner: the position after the value that starts at i, 0 when no
\* value starts there (JSONDecodeError); numbers, strings, arrays, objects
ValueEnd(text, i) ==
    IF i > Len(text) THEN 0
    ELSE IF text[i] \in DigitChars
    THEN IF text[i] = "0" /\ i < Len(text) /\ text[i + 1] \in DigitChars
         THEN i + 1
         ELSE SkipDigits(text, i)
    ELSE IF text[i] = "\"" THEN StringEnd(text, i)
    ELSE IF text[i] = "["
    THEN LET j == SkipJsonWhitespace(text, i + 1)
         IN  IF j <= Len(text) /\ text[j] = "]" THEN j + 1 ELSE ElementsEnd(text, j)
    ELSE IF text[i] = "{"
    THEN LET j == SkipJsonWhitespace(text, i + 1)
         IN  IF j <= Len(text) /\ text[j] = "}" THEN j + 1 ELSE MembersEnd(text, j)
    ELSE 0

\* value (, value)* ] from position j on
ElementsEnd(text, j) ==
    LET v == ValueEnd(text, j)
        k == SkipJsonWhitespace(text, v)
    IN  IF v = 0 \/ k > Len(text) THEN 0
        ELSE IF text[k] = "]" THEN k + 1
        ELSE IF text[k] = "," THEN ElementsEnd(text, SkipJsonWhitespace(text, k + 1))
        ELSE 0

\* "key" : value (, "key" : value)* } from position j on
MembersEnd(text, j) ==
    LET key == IF j <= Len(text) /\ text[j] = "\"" THEN StringEnd(text, j) ELSE 0
        colon == SkipJsonWhitespace(text, key)
        v == IF key = 0 \/ colon > Len(text) \/ text[colon] /= ":" THEN 0
             ELSE ValueEnd(text, SkipJsonWhitespace(text, colon + 1))
        k == SkipJsonWhitespace(text, v)
    IN  IF v = 0 \/ k > Len(text) THEN 0
        ELSE IF text[k] = "}" THEN k + 1
        ELSE IF text[k] = "," THEN MembersEnd(text, SkipJsonWhitespace(text, k + 1))
        ELSE 0

\* json.load / json.loads accept the text: one value, whitespace around it
JsonValid(text) ==
    LET e == ValueEnd(text, SkipJsonWhitespace(text, 1))
    IN  e /= 0 /\ SkipJsonWhitespace(text, e) = Len(text) + 1

RECURSIVE Compact(_, _, _)
\* the value a JSON text denotes, written without whitespace between tokens
Compact(text, i, inString) ==
    IF i > Len(text) THEN <<>>
    ELSE IF ~inString /\ text[i] \in JsonWhitespace THEN Compact(text, i + 1, inString)
    ELSE <<text[i]>> \o Compact(text, i + 1, IF text[i] = "\"" THEN ~inString ELSE inString)

\* a record that is a parsed JSON value
Parsed(text) == [raw_line |-> FALSE, value |-> Compact(text, 1, FALSE)]

\* the record {"raw_line": line}
RawLine(line) == [raw_line |-> TRUE, value |-> line]

RECURSIVE Elements(_, _)
\* the elements of the array whose first element starts at position j
Elements(text, j) ==
    IF text[j] = "]" THEN <<>>
    ELSE LET v == ValueEnd(text, j)
             k == SkipJsonWhitespace(text, v)
         IN  <<Parsed(SubSeq(text, j, v - 1))>>
             \o (IF text[k] = "," THEN Elements(text, SkipJsonWhitespace(text, k + 1))
                 ELSE <<>>)

\* obj = json.load(f); records = obj if isinstance(obj, list) else [obj]
WholeFileRecords(text) ==
    LET i == SkipJsonWhitespace(text, 1)
    IN  IF text[i] = "[" THEN Elements(text, SkipJsonWhitespace(text, i + 1))
        ELSE <<Parsed(text)>>

\* line = line.strip(); if not line: continue; try: json.loads(line)
\* except Exception: {"raw_line": line}
LineRecord(line) ==
    LET stripped == Strip(line, Whitespace)
    IN  IF stripped = <<>> THEN <<>>
        ELSE IF JsonValid(stripped) THEN <<Parsed(stripped)>>
        ELSE <<RawLine(stripped)>>

RECURSIVE LineRecords(_)
\* f.seek(0); for line in f: ...
LineRecords(lines) ==
    IF lines = <<>> THEN <<>> ELSE LineRecord(lines[1]) \o LineRecords(Tail(lines))

\* records = []; try: json.load(f) ... except json.JSONDecodeError: line by line
LooseRecords(text) ==
    IF JsonValid(text) THEN WholeFileRecords(text) ELSE LineRecords(SplitLines(text))

\* render_json_avro_view(records, local_file_path): the caller's list after the
\* call. The function reads the file again; when json.load succeeds it binds
\* its own name to the new value, when json.load fails it appends the line
\* records to the list it was given
RenderJsonAvroView(records, text) ==
    IF JsonValid(text) THEN records ELSE records \o LineRecords(SplitLines(text))

JsonChars == {"1", "[", "]", ",", " ", "\n", "x"}

FILE_three_lines == <<"{", "\"", "a", "\"", ":", "1", "}", "\n", "{", "\"", "b", "\"", ":", "2", "}", "\n", "n", "o", "t", "-", "j", "s", "o", "n", "\n">>
FILE_object == <<"{", "\"", "a", "\"", ":", " ", "1", "}">>
FILE_array_of_objects == <<"[", "{", "\"", "a", "\"", ":", "1", "}", ",", " ", "{", "\"", "b", "\"", ":", "[", "1", ",", " ", "2", "]", "}", "]">>
FILE_pretty == <<"{", "\n", " ", "\"", "a", "\"", ":", " ", "\"", "x", " ", "y", "\"", "\n", "}", "\n">>
FILE_blank_lines == <<"\n", " ", "\n", "{", "\"", "a", "\"", ":", "1", "}", "\n", "\n", "1", " ", "x", "\n">>

\* every short text over the JSON punctuation, and files with objects
LooseFiles ==
    TextsUpTo(JsonChars, MaxFileLen)
        \cup {FILE_three_lines, FILE_object, FILE_array_of_objects, FILE_pretty,
              FILE_blank_lines}

LooseInit ==
    /\ AtRest
    /\ pc = "loose"
    /\ input \in LooseFiles
    /\ output = NONE

\* the json/ndjson branch up to the AI summary: output is the list `records`
\* that is shown and handed to safe_cortex_call
ReadLooseRecords ==
    /\ pc = "loose"
    /\ output' = RenderJsonAvroView(LooseRecords(input), input)
    /\ pc' = "returned"
    /\ UNCHANGED <<input, widgets, readVars, ddl, volumes, stages, store, selected_stage,
                   external_volume_name, catalog_name, base_location, ev_s3_path,
                   resolved_stage, stage_url, relative_from_ev, relative_prefix,
                   ls_pattern, ls_calls, files_df, error>>

LooseSpec == LooseInit /\ [][ReadLooseRecords]_vars

\* ------------------------------------------------------ cleanse_for_cortex
\* longest enumerated record text
MaxRecordLen == 3
\* largest enumerated max_len
MaxMaxLen == 8

\* the max_len safe_cortex_call passes, and the default of cleanse_for_cortex
CORTEX_MAX_LEN == 3000
DEFAULT_MAX_LEN == 2000

\* U+0085, a control character of the range \x7f-\x9f
NEL == "<U+0085>"

\* [\n\r\t]
LineEndsAndTabs == {"\n", "\r", "\t"}
\* [\x00-\x1f\x7f-\x9f], on the characters the texts hold
ControlChars == {"\n", "\r", "\t", NEL}
\* \s of a str pattern
ReWhitespace == {" ", "\t", "\n", "\r", NEL}

\* how json.dumps writes one character of a str (ensure_ascii=False)
JsonEscape(c) ==
    IF c = "\"" THEN <<"\\", "\"">>
    ELSE IF c = "\\" THEN <<"\\", "\\">>
    ELSE IF c = "\n" THEN <<"\\", "n">>
    ELSE IF c = "\r" THEN <<"\\", "r">>
    ELSE IF c = "\t" THEN <<"\\", "t">>
    ELSE <<c>>

RECURSIVE JsonEscapeAll(_)
JsonEscapeAll(text) ==
    IF text = <<>> THEN <<>> ELSE JsonEscape(text[1]) \o JsonEscapeAll(Tail(text))

\* json.dumps(record, default=str, ensure_ascii=False) of a str record (it
\* does not raise for a str, so s = str(record) is not reached)
JsonDumps(record) == <<"\"">> \o JsonEscapeAll(record) \o <<"\"">>

RECURSIVE DoubleQuotes(_)
\* s.replace("'", "''")
DoubleQuotes(text) ==
    IF text = <<>> THEN <<>>
    ELSE (IF text[1] = "'" THEN <<"'", "'">> ELSE <<text[1]>>) \o DoubleQuotes(Tail(text))

RECURSIVE RunEnd(_, _, _)
\* the position after the run of class characters that starts at i
RunEnd(text, i, class) ==
    IF i <= Len(text) /\ text[i] \in class THEN RunEnd(text, i + 1, class) ELSE i

RECURSIVE SubRuns(_, _, _)
\* re.sub(r'[class]{least,}', ' ', s)
SubRuns(text, class, least) ==
    IF text = <<>> THEN <<>>
    ELSE LET end == RunEnd(text, 1, class)
         IN  IF end - 1 >= least
             THEN <<" ">> \o SubRuns(SubSeq(text, end, Len(text)), class, least)
             ELSE <<text[1]>> \o SubRuns(Tail(text), class, least)

\* s[:max_len]
Take(text, n) == SubSeq(text, 1, IF n < Len(text) THEN n ELSE Len(text))

\* cleanse_for_cortex(record, max_len)
CleanseForCortex(record, max_len) ==
    Take(SubRuns(SubRuns(SubRuns(DoubleQuotes(JsonDumps(record)),
                                 LineEndsAndTabs, 1), ControlChars, 1),
                 ReWhitespace, 2), max_len)

RecordChars == {"a", "'", "\n", " ", "\t", NEL}

CleanseInit ==
    /\ AtRest
    /\ pc = "cleanse"
    /\ input \in [record : TextsUpTo(RecordChars, MaxRecordLen), max_len : 0..MaxMaxLen]
    /\ output = NONE

\* safe_text = cleanse_for_cortex(record, max_len=...)
Cleanse ==
    /\ pc = "cleanse"
    /\ output' = CleanseForCortex(input.record, input.max_len)
    /\ pc' = "returned"
    /\ UNCHANGED <<input, widgets, readVars, ddl, volumes, stages, store, selected_stage,
                   external_volume_name, catalog_name, base_location, ev_s3_path,
                   resolved_stage, stage_url, relative_from_ev, relative_prefix,
                   ls_pattern, ls_calls, files_df, error>>

CleanseSpec == CleanseInit /\ [][Cleanse]_vars

\* --------------------------------------------------- show_parquet_metadata
\* most row groups and most column chunks per row group of an enumerated file
MaxRowGroups == 2
MaxColumns == 2

\* what reading col.statistics and its members does for a column chunk:
\*   none                   col.statistics is None
\*   values                 every statistic can be read
\*   not_implemented        col.statistics raises NotImplementedError
\*   arrow_not_implemented  col.statistics raises ArrowNotImplementedError
\*   member_not_implemented a member (min, max, ...) raises NotImplementedError
\*   corrupt                col.statistics raises another exception
StatisticsAccess ==
    {"none", "values", "not_implemented", "arrow_not_implemented",
     "member_not_implemented", "corrupt"}

\* the accesses that fail because a statistic is not implemented
NotImplementedAccess ==
    {"not_implemented", "arrow_not_implemented", "member_not_implemented"}

PhysicalTypes == {"INT32", "BYTE_ARRAY"}

\* the column chunks of a file: every row group has one chunk per column
ColumnChunks == [physical_type : PhysicalTypes, access : StatisticsAccess]

\* what the footer of the file says about chunk j of row group i
PathInSchema(j) == <<"c">> \o AsStr(j)
COMPRESSION == "SNAPPY"
ENCODINGS == <<"PLAIN", "RLE">>
NumRows(i) == 10 * i

\* "statistics": None
ABSENT == [present |-> FALSE]

\* the dict of the five statistics of chunk j of row group i
StatisticsDict(i, j) ==
    [present |-> TRUE, null_count |-> 0, distinct_count |-> j,
     min |-> i, max |-> i + j, num_values |-> NumRows(i)]

\* the mutant of ReadStatistics without the except clause
ReadStatisticsUncaught(col, i, j) ==
    [raised |-> col.access \notin {"none", "values"},
     statistics |-> IF col.access = "values" THEN StatisticsDict(i, j) ELSE ABSENT]

\* try: if col.statistics is not None: col_info["statistics"] = {...}
\* except (NotImplementedError, ArrowNotImplementedError): ... = None
ReadStatistics(col, i, j) ==
    [raised |-> col.access \notin {"none", "values"} \cup NotImplementedAccess,
     statistics |-> IF col.access = "values" THEN StatisticsDict(i, j) ELSE ABSENT]

\* col_info of chunk j of row group i
ColumnInfo(col, i, j) ==
    [path_in_schema |-> PathInSchema(j),
     physical_type |-> col.physical_type,
     compression |-> COMPRESSION,
     encodings |-> ENCODINGS,
     statistics |-> ReadStatistics(col, i, j).statistics]

\* rg_info of row group i
RowGroupInfo(file, i) ==
    [num_rows |-> NumRows(i),
     columns |-> [j \in 1..Len(file.columns) |-> ColumnInfo(file.columns[j], i, j)]]

\* an exception leaves the loops over the row groups and their chunks
StatisticsRaise(file) ==
    \E i \in 1..file.num_row_groups : \E j \in 1..Len(file.columns) :
        ReadStatistics(file.columns[j], i, j).raised

\* show_parquet_metadata(local_file_path): the overview and the row groups of
\* the returned dict, or the exception that leaves the function
ShowParquetMetadata(file) ==
    IF StatisticsRaise(file)
    THEN [raised |-> TRUE, num_columns |-> 0, num_row_groups |-> 0, row_groups |-> <<>>]
    ELSE [raised |-> FALSE,
          num_columns |-> Len(file.columns),
          num_row_groups |-> file.num_row_groups,
          row_groups |-> [i \in 1..file.num_row_groups |-> RowGroupInfo(file, i)]]

ParquetInit ==
    /\ AtRest
    /\ pc = "parquet"
    /\ input \in [num_row_groups : 0..MaxRowGroups,
                  columns : TextsUpTo(ColumnChunks, MaxColumns)]
    /\ output = NONE

\* metadata_dict = show_parquet_metadata(local_file_path)
ExtractParquet ==
    /\ pc = "parquet"
    /\ output' = ShowParquetMetadata(input)
    /\ pc' = "returned"
    /\ UNCHANGED <<input, widgets, readVars, ddl, volumes, stages, store, selected_stage,
                   external_volume_name, catalog_name, base_location, ev_s3_path,
                   resolved_stage, stage_url, relative_from_ev, relative_prefix,
                   ls_pattern, ls_calls, files_df, error>>

ParquetSpec == ParquetInit /\ [][ExtractParquet]_vars

\* ============================================ database and table selection
\* The top of the script, from "Select a Database" to the metadata of the
\* finalized table, over the runs of one session; a run that gets through
\* goes on with "Extract DDL Details" for selected_table. Both scripts are
\* followed: the app script from pc = "database", the older root-level one
\* from pc = "legacy_database".

\* most script runs of one session of database and table selection
MaxSessionRuns == 5

DB_one == <<"D", "1">>
DB_two == <<"D", "2">>
\* a database without Iceberg tables, and one whose INFORMATION_SCHEMA query raises
DB_empty == <<"D", "3">>
DB_locked == <<"D", "4">>
DbList == {DB_one, DB_two, DB_empty, DB_locked}

T_1a == <<"D", "1", ".", "S", ".", "A">>
T_1b == <<"D", "1", ".", "S", ".", "B">>
T_2a == <<"D", "2", ".", "S", ".", "A">>

\* TABLE_CATALOG||'.'||TABLE_SCHEMA||'.'||TABLE_NAME of the Iceberg tables a
\* database was created with
TablesOf(db) ==
    IF db = DB_one THEN {T_1a, T_1b}
    ELSE IF db = DB_two THEN {T_2a}
    ELSE {}

\* the table that may be dropped while the session lasts
Droppable == {T_1a}

\* iceberg_tables['TABLE_NAME'] of the current run
IcebergTables(db) == TablesOf(db) \ dropped

\* the options of the selectbox "Select an Iceberg Table"
TableOptions(db) == {SELECT_ONE} \cup IcebergTables(db)

\* the value the table selectbox returns: the value kept under its key, or
\* the first option when that value is not among the options
TableChoice(db) ==
    IF selected_table_choice \in TableOptions(db) THEN selected_table_choice ELSE SELECT_ONE

\* st.session_state.selected_table_final after "Submit Table"
Finalized(db) ==
    IF submit_table /\ TableChoice(db) /= SELECT_ONE
    THEN TableChoice(db)
    ELSE selected_table_final

\* what the selection steps leave alone
pipeline ==
    <<pure, fileWidgets, ddl, volumes, stages, store, selected_stage,
      external_volume_name, catalog_name, base_location, ev_s3_path,
      resolved_stage, stage_url, relative_from_ev, relative_prefix,
      ls_pattern, ls_calls, files_df>>

\* app script, "Select a Database": the previous_db reset, then the stop on
\* 'Select One'
SelectDatabase ==
    /\ pc = "database"
    /\ LET changed == previous_db /= NONE /\ previous_db /= selected_db
       IN  /\ previous_db' = selected_db
           /\ selected_table_final' = IF changed THEN NONE ELSE selected_table_final
           /\ selected_table_choice' = IF changed THEN SELECT_ONE ELSE selected_table_choice
    /\ IF selected_db = SELECT_ONE
       THEN Stop("SelectADatabase", <<>>)
       ELSE pc' = "tables" /\ UNCHANGED error
    /\ UNCHANGED <<pipeline, readVars, selected_db, submit_table, selected_table, dropped>>

\* app script, "Iceberg Tables": the query raises; st.error, st.stop()
FetchTablesFails ==
    /\ pc = "tables"
    /\ selected_db = DB_locked
    /\ Stop("ErrorRetrievingTables", selected_db)
    /\ UNCHANGED <<pipeline, readVars, session>>

\* app script, "Iceberg Tables": if iceberg_tables.empty: st.warning, st.stop()
FetchTablesEmpty ==
    /\ pc = "tables"
    /\ selected_db /= DB_locked
    /\ IcebergTables(selected_db) = {}
    /\ Stop("NoIcebergTables", selected_db)
    /\ UNCHANGED <<pipeline, readVars, session>>

\* app script, "Iceberg Tables": the tables of the database are fetched
FetchTables ==
    /\ pc = "tables"
    /\ selected_db /= DB_locked
    /\ IcebergTables(selected_db) /= {}
    /\ pc' = "table"
    /\ UNCHANGED <<pipeline, readVars, session, error>>

\* app script, "Iceberg Table Selection" and "Show selected table metadata":
\* the selectbox, "Submit Table", the stop without a finalized table and the
\* stop for a finalized table that is not in iceberg_tables
SelectTable ==
    /\ pc = "table"
    /\ selected_table_choice' = TableChoice(selected_db)
    /\ selected_table_final' = Finalized(selected_db)
    /\ selected_table' = Finalized(selected_db)
    /\ IF Finalized(selected_db) = NONE
       THEN Stop("SelectATable", <<>>)
       ELSE IF Finalized(selected_db) \notin IcebergTables(selected_db)
            THEN Stop("TableNotFound", Finalized(selected_db))
            ELSE pc' = "extract" /\ UNCHANGED error
    /\ UNCHANGED <<pipeline, readVars, selected_db, submit_table, previous_db, dropped>>

\* older script, "Select a Database": the stop on 'Select One' only
LegacySelectDatabase ==
    /\ pc = "legacy_database"
    /\ IF selected_db = SELECT_ONE
       THEN LegacyStop("SelectADatabase", <<>>)
       ELSE pc' = "legacy_tables" /\ UNCHANGED error
    /\ UNCHANGED <<pipeline, readVars, session>>

\* older script, "Iceberg Tables": the query raises, or the tables are fetched
LegacyFetchTables ==
    /\ pc = "legacy_tables"
    /\ IF selected_db = DB_locked
       THEN LegacyStop("ErrorRetrievingTables", selected_db)
       ELSE pc' = "legacy_table" /\ UNCHANGED error
    /\ UNCHANGED <<pipeline, readVars, session>>

\* older script: the selectbox, "Submit Table", the stop without a finalized
\* table; iceberg_tables[...].iloc[0] raises IndexError, outside every try
\* block, for a finalized table that is not in iceberg_tables
LegacySelectTable ==
    /\ pc = "legacy_table"
    /\ selected_table_choice' = TableChoice(selected_db)
    /\ selected_table_final' = Finalized(selected_db)
    /\ selected_table' = Finalized(selected_db)
    /\ IF Finalized(selected_db) = NONE
       THEN LegacyStop("SelectATable", <<>>)
       ELSE IF Finalized(selected_db) \notin IcebergTables(selected_db)
            THEN LegacyStop("UncaughtException", Finalized(selected_db))
            ELSE pc' = "legacy_extract" /\ UNCHANGED error
    /\ UNCHANGED <<pipeline, readVars, selected_db, submit_table, previous_db, dropped>>

\* the run of either script is over
RunOver == pc \in {"stopped", "extract", "legacy_stopped", "legacy_extract"}

\* the last run drew the table selectbox and the "Submit Table" button
TableWidgetsDrawn ==
    \/ pc \in {"extract", "legacy_extract"}
    \/ error.kind \in {"SelectATable", "TableNotFound", "UncaughtException"}

\* Streamlit runs the script again from the top after an interaction
NextRun ==
    /\ RunOver
    /\ runs < MaxSessionRuns
    /\ runs' = runs + 1
    /\ pc' = IF pc \in {"legacy_stopped", "legacy_extract"} THEN "legacy_database" ELSE "database"
    /\ error' = NoError
    /\ selected_table' = NONE
    /\ UNCHANGED <<pipeline, matched_files, selected_file_only_path, tmp_dir, scratch,
                   file_ext, calls, ai_summary, previous_db, selected_table_final>>

\* the user selects another database
ChangeDatabase ==
    /\ NextRun
    /\ \E db \in ({SELECT_ONE} \cup DbList) \ {selected_db} : selected_db' = db
    /\ submit_table' = FALSE
    /\ UNCHANGED <<selected_table_choice, dropped>>

\* the user selects another option of the table selectbox
ChooseTable ==
    /\ NextRun
    /\ TableWidgetsDrawn
    /\ \E t \in TableOptions(selected_db) \ {selected_table_choice} : selected_table_choice' = t
    /\ submit_table' = FALSE
    /\ UNCHANGED <<selected_db, dropped>>

\* the user presses "Submit Table"
PressSubmitTable ==
    /\ NextRun
    /\ TableWidgetsDrawn
    /\ submit_table' = TRUE
    /\ UNCHANGED <<selected_db, selected_table_choice, dropped>>

\* a table is dropped from its database, and the script runs again with the
\* widgets as they are
TableDropped ==
    /\ NextRun
    /\ \E t \in Droppable \ dropped : dropped' = dropped \cup {t}
    /\ submit_table' = FALSE
    /\ UNCHANGED <<selected_db, selected_table_choice>>

SessionInit ==
    /\ pc \in {"database", "legacy_database"}
    /\ ScriptAtRest
    /\ NoCall
    /\ NewSession

SessionNext ==
    \/ SelectDatabase
    \/ FetchTablesFails
    \/ FetchTablesEmpty
    \/ FetchTables
    \/ SelectTable
    \/ LegacySelectDatabase
    \/ LegacyFetchTables
    \/ LegacySelectTable
    \/ ChangeDatabase
    \/ ChooseTable
    \/ PressSubmitTable
    \/ TableDropped

SessionSpec == SessionInit /\ [][SessionNext]_vars

\* =============================================================== claims
\* the run is past "Resolve Stage" with a stage resolved
Resolved == relative_prefix /= NONE

\* the run is past the named section
PastExtract == pc /= "extract"
PastResolve == pc \notin {"extract", "resolve"}

\* s with its leading and trailing '/' removed
Trimmed(s) == Strip(s, {"/"})

\* an optional text read as text
TextOf(x) == IF x = NONE THEN <<>> ELSE x

\* root is a proper prefix of path that ends where path has a '/'
BoundedPrefix(root, path) ==
    /\ Len(root) < Len(path)
    /\ \A k \in 1..Len(root) : path[k] = root[k]
    /\ path[Len(root) + 1] = "/"

\* the S3_PATH of the first row of the volume table with this name
VolumeRootOf(name) ==
    LET rows == {i \in 1..Len(volumes) : volumes[i].VOLUME_NAME = name}
    IN  volumes[CHOOSE i \in rows : \A h \in rows : i <= h].S3_PATH

VolumeKnown(name) == \E i \in 1..Len(volumes) : volumes[i].VOLUME_NAME = name

ExampleDdl ==
    DdlWith(<<Assign(KEY_EXTERNAL_VOLUME, TXT_VOL1), Assign(KEY_BASE_LOCATION, TXT_db_t1)>>)

\* the end-to-end example: VOL1 -> store://bkt/vol1, one mount rooted at store://bkt
IsExample ==
    /\ ddl = ExampleDdl
    /\ volumes = <<VolumeRow(TXT_VOL1, TXT_store_bkt_vol1)>>
    /\ stages = <<StageRow(StageNames[1], TXT_store_bkt)>>

\* C1: relative_prefix is the non-empty members of (relative_from_ev,
\* base_location), each trimmed of leading and trailing '/', joined by one '/';
\* the VOL1 example resolves to its one mount with relative_prefix vol1/db/t1
\* and a pattern anchored on that prefix.
C1_RelativePrefixIsTrimmedJoin ==
    /\ Resolved =>
          relative_prefix =
              Join(NonEmpty(<<Trimmed(relative_from_ev), Trimmed(TextOf(base_location))>>),
                   <<"/">>)
    /\ (IsExample /\ PastResolve) =>
          /\ resolved_stage = StageNames[1]
          /\ relative_prefix = TXT_vol1_db_t1
          /\ ls_pattern = <<"^">> \o TXT_vol1_db_t1 \o <<".", "*">>

C1_Witness ==
    /\ IsExample
    /\ pc = "list"
    /\ relative_from_ev = <<"v","o","l","1">>
    /\ base_location = <<"/","d","b","/","t","1">>
    /\ relative_prefix = TXT_vol1_db_t1

\* C2: the stage that is selected is a row of the stage table whose normalised
\* root equals the normalised volume root or is a '/'-bounded prefix of it; the
\* root s3://bucket/mount-1 is never selected for s3://bucket/mount-10/x.
C2_SelectedMountIsBoundedPrefix ==
    /\ Resolved =>
          /\ \E i \in 1..Len(stages) :
                /\ stages[i].STAGE_NAME = resolved_stage
                /\ NormalizePath(stages[i].STAGE_URL) = stage_url
          /\ stage_url = ev_s3_path \/ BoundedPrefix(stage_url, ev_s3_path)
    /\ (PastResolve /\ ev_s3_path = TXT_mount_10_x) =>
          /\ stage_url /= TXT_mount_1
          /\ \A i \in 1..Len(stages) :
                stages[i].STAGE_URL = TXT_mount_1 => resolved_stage /= stages[i].STAGE_NAME

C2_Witness ==
    /\ ev_s3_path = TXT_mount_10_x
    /\ stages = <<StageRow(StageNames[1], TXT_mount_1), StageRow(StageNames[2], TXT_s3_bucket)>>
    /\ resolved_stage = StageNames[2]
    /\ stage_url = TXT_s3_bucket

\* the object keys a pattern is tried on
Keys == TextsUpTo(ValueChars, MaxKeyLen)

\* C3: for a non-empty relative_prefix a key matches ls_pattern if and only if
\* it begins with relative_prefix read literally (every pattern-special
\* character escaped); for an empty relative_prefix every key matches.
C3_PatternIsLiteralPrefix ==
    Resolved =>
       /\ relative_prefix /= <<>> =>
             /\ ls_pattern = <<"^">> \o ReEscape(relative_prefix) \o <<".", "*">>
             /\ \A key \in Keys :
                   PatternMatches(ls_pattern, key) <=> StartsWith(key, relative_prefix)
       /\ relative_prefix = <<>> => \A key \in Keys : PatternMatches(ls_pattern, key)

\* C4: relative_from_ev is the volume root without the stage root and one '/',
\* and empty when the two are equal; stage root + '/' + relative_from_ev is the
\* volume root whenever relative_from_ev is not empty; s3://bucket/a under
\* s3://bucket/a/b gives b.
C4_RelativeFromMountIsRemainder ==
    /\ Resolved =>
          /\ ev_s3_path = stage_url => relative_from_ev = <<>>
          /\ ev_s3_path /= stage_url => relative_from_ev /= <<>>
          /\ relative_from_ev /= <<>> =>
                stage_url \o <<"/">> \o relative_from_ev = ev_s3_path
    /\ (Resolved /\ stage_url = TXT_bucket_a /\ ev_s3_path = TXT_bucket_a_b) =>
          relative_from_ev = <<"b">>

C4_Witness ==
    /\ Resolved
    /\ stage_url = TXT_bucket_a
    /\ ev_s3_path = TXT_bucket_a_b
    /\ relative_from_ev = <<"b">>

\* C5: relative_prefix neither begins nor ends with '/'.
C5_PrefixHasNoOuterSeparator ==
    Resolved =>
       \/ relative_prefix = <<>>
       \/ relative_prefix[1] /= "/" /\ relative_prefix[Len(relative_prefix)] /= "/"

C5_Witness ==
    /\ Resolved
    /\ relative_from_ev /= <<>>
    /\ relative_from_ev[1] = "/"
    /\ Truthy(base_location)
    /\ base_location[1] = "/"
    /\ relative_prefix /= <<>>

\* C6: when the volume table has no row for the descriptor's volume name the
\* run stops with VolumeNotFound naming the volume: no stage is matched, no
\* pattern is built and no LS statement is sent.
C6_UnknownVolumeStopsBeforeListing ==
    (PastResolve /\ Truthy(external_volume_name) /\ ~VolumeKnown(external_volume_name)) =>
       /\ pc = "stopped"
       /\ error = [kind |-> "VolumeNotFound", context |-> external_volume_name]
       /\ resolved_stage = NoStage
       /\ stage_url = NONE
       /\ relative_prefix = NONE
       /\ ls_pattern = NONE
       /\ ls_calls = <<>>

C6_Witness ==
    /\ pc = "stopped"
    /\ volumes /= <<>>
    /\ external_volume_name = TXT_VOL1
    /\ ~VolumeKnown(external_volume_name)
    /\ error.kind = "VolumeNotFound"

\* no stage root equals the path or is a '/'-bounded prefix of it
NoMountFor(path) ==
    \A i \in 1..Len(stages) :
        LET root == NormalizePath(stages[i].STAGE_URL)
        IN  root /= path /\ ~BoundedPrefix(root, path)

C8_QuotedBaseLocationIsParsed ==
    (PastExtract /\ ddl \in QuotedXY) =>
       base_location = TXT_xy

C8_Witness ==
    /\ pc = "resolve"
    /\ ddl = DdlHead \o <<" ">>
             \o AssignAs(LowerStr(KEY_BASE_LOCATION), <<" ", "\n", "\t">>, <<"\n">>,
                         "\"", "\"", TXT_xy)
             \o <<";">>
    /\ base_location = TXT_xy

\* the value the quoted pattern captures for a key, before the clean-up
RawValue(key) == SearchQuoted(ddl, key)

\* C10 (as claimed): no returned value ends with '/' or '/*', and a captured
\* value that ends with neither is returned unchanged.
C10_OnlySlashAndSlashStarRemoved ==
    PastExtract =>
       \A field \in {<<KEY_EXTERNAL_VOLUME, external_volume_name>>,
                     <<KEY_CATALOG, catalog_name>>,
                     <<KEY_BASE_LOCATION, base_location>>} :
          field[2] /= NONE =>
             /\ ~EndsWith(field[2], <<"/">>)
             /\ ~EndsWith(field[2], <<"/", "*">>)
             /\ (~EndsWith(RawValue(field[1]), <<"/">>)
                 /\ ~EndsWith(RawValue(field[1]), <<"/", "*">>)) =>
                   field[2] = RawValue(field[1])

\* the run is in the older script, past its BASE_LOCATION section
LegacyPastBase == pc \in {"legacy_resolve", "legacy_list", "legacy_stopped"}
\* the run is in the older script, past its EXTERNAL_VOLUME search
LegacyPastVolume ==
    \/ pc = "legacy_list"
    \/ pc = "legacy_stopped" /\ error.kind \in {"ExternalVolumeNameNotFound", "VolumeNotFound"}

\* C9 (as claimed): each key falls back to a line scan when the quoted pattern
\* does not match, so an unquoted EXTERNAL_VOLUME = V or BASE_LOCATION = x/y,
\* still yields the value.
C9_EveryKeyFallsBackToLineScan ==
    /\ (LegacyPastBase /\ ddl = DdlHead \o <<" ">> \o KEY_BASE_LOCATION
                                  \o <<" ", "=", " ">> \o TXT_xy \o <<",">>) =>
          base_location = TXT_xy
    /\ (LegacyPastVolume /\ ddl \in {DdlWith(<<Assign(KEY_BASE_LOCATION, TXT_xy)>>)
                                         \o <<"\n">> \o t : t \in UnquotedVolume}) =>
          external_volume_name = V
    /\ (pc = "resolve" /\ ddl \in UnquotedXY) => base_location = TXT_xy

\* where the first occurrence of BASE_LOCATION (in any case) starts, or 0
FirstKeyAt(text, key) ==
    LET at == {i \in 1..Len(text) : KeyAt(text, i, key)}
    IN  IF at = {} THEN 0 ELSE CHOOSE i \in at : \A h \in at : i <= h

\* the first and last position of the line that holds position k
LineStart(text, k) ==
    LET breaks == {i \in 1..k : text[i] \in {"\n", "\r"}}
    IN  IF breaks = {} THEN 1 ELSE 1 + CHOOSE i \in breaks : \A h \in breaks : h <= i
LineEnd(text, k) ==
    LET breaks == {i \in k..Len(text) : text[i] \in {"\n", "\r"}}
    IN  IF breaks = {} THEN Len(text) ELSE (CHOOSE i \in breaks : \A h \in breaks : i <= h) - 1

\* the positions of '=' on the line that holds position k
EqualsOnLine(text, k) == {i \in LineStart(text, k)..LineEnd(text, k) : text[i] = "="}

\* the text between the first '=' of the line and its next '=' or its end
AfterFirstEquals(text, k) ==
    LET eqs == EqualsOnLine(text, k)
        first == CHOOSE i \in eqs : \A h \in eqs : i <= h
        later == eqs \ {first}
        stop == IF later = {} THEN LineEnd(text, k) + 1
                ELSE CHOOSE i \in later : \A h \in later : i <= h
    IN  SubSeq(text, first + 1, stop - 1)

\* the unquoted layouts in which nothing but a comma follows the value on its line
UnquotedXYAlone ==
    {before \o spelling \o ws1 \o <<"=">> \o ws2 \o TXT_xy \o end \o after :
        before \in TextsBefore, spelling \in KeySpellings(KEY_BASE_LOCATION),
        ws1 \in {<<>>, <<" ">>}, ws2 \in {<<>>, <<" ">>},
        end \in {<<>>, <<",">>, <<" ", ",">>},
        after \in {<<>>, <<"\n">> \o Assign(KEY_CATALOG, <<"C">>) \o <<";">>}}

\* C9 (amended): only BASE_LOCATION, and only in the older script, falls back
\* to a line scan when the quoted pattern does not match: the first line that
\* holds the key gives the text between its first '=' and its next '=' (or its
\* end), stripped of blanks, tabs, quotes and commas and then of trailing '/';
\* a line without '=' stops the run with an error, an empty value with "not
\* found". EXTERNAL_VOLUME has no fallback there, and the app script has none
\* for any of the three keys.
C9_OnlyOlderBaseLocationFallsBack ==
    /\ (LegacyPastBase /\ ddl /= NONE /\ SearchQuoted(ddl, KEY_BASE_LOCATION) = NONE) =>
          LET k == FirstKeyAt(ddl, KEY_BASE_LOCATION)
          IN  IF k = 0
              THEN pc = "legacy_stopped" /\ error.kind = "BaseLocationNotFound"
              ELSE IF EqualsOnLine(ddl, k) = {}
              THEN pc = "legacy_stopped" /\ error.kind = "ErrorExtractingBaseLocation"
              ELSE LET value == Strip(AfterFirstEquals(ddl, k), {" ", "\t", "'", "\"", ","})
                   IN  IF value = <<>>
                       THEN pc = "legacy_stopped" /\ error.kind = "BaseLocationNotFound"
                       ELSE base_location = RStrip(value, {"/"})
    /\ (LegacyPastBase /\ ddl \in UnquotedXYAlone) => base_location = TXT_xy
    /\ (LegacyPastVolume /\ SearchQuoted(ddl, KEY_EXTERNAL_VOLUME) = NONE) =>
          /\ external_volume_name = NONE
          /\ pc = "legacy_stopped"
          /\ error.kind = "ExternalVolumeNameNotFound"
    /\ pc = "resolve" =>
          /\ SearchQuoted(ddl, KEY_EXTERNAL_VOLUME) = NONE => external_volume_name = NONE
          /\ SearchQuoted(ddl, KEY_CATALOG) = NONE => catalog_name = NONE
          /\ SearchQuoted(ddl, KEY_BASE_LOCATION) = NONE => base_location = NONE

C9_Witness ==
    /\ pc = "legacy_resolve"
    /\ ddl = DdlHead \o <<" ">> \o KEY_BASE_LOCATION \o <<" ", "=", " ">> \o TXT_xy \o <<",">>
    /\ base_location = TXT_xy

\* the key is written somewhere in the definition, in any letter case
HasKey(text, key) == Contains(UpperStr(text), key)

\* the volume of the descriptor is known and a stage serves its root
Resolvable ==
    /\ Truthy(external_volume_name)
    /\ VolumeKnown(external_volume_name)
    /\ ~NoMountFor(NormalizePath(VolumeRootOf(external_volume_name)))

Listed == ls_calls /= <<>> /\ error.kind \notin {"ErrorListingFiles", "NoFilesFound"}

\* the last four characters of a name
Suffix4(name) == IF Len(name) < 4 THEN <<>> ELSE SubSeq(name, Len(name) - 3, Len(name))

SideSuffixes == {<<".", "c", "r", "c">>, <<".", "b", "i", "n">>}

\* the rows of a sequence, as a set
RowsOf(rows) == {rows[k] : k \in 1..Len(rows)}

\* C12: files_df holds exactly the listed rows whose NAME does not end in .crc
\* or .bin, each once and in listing order; of part-0.parquet and
\* part-0.parquet.crc only the former is kept.
C12_FilterKeepsExactlyDataObjects ==
    Listed =>
       LET listed == LsResult(ls_pattern)
           kept == {k \in 1..Len(listed) : Suffix4(listed[k].NAME) \notin SideSuffixes}
       IN  /\ RowsOf(files_df) = {listed[k] : k \in kept}
           /\ Len(files_df) = Cardinality(kept)
           /\ \A i, j \in 1..Len(files_df) :
                 i < j => \E a, b \in kept :
                             a < b /\ listed[a] = files_df[i] /\ listed[b] = files_df[j]
           /\ store = FileStore =>
                 /\ \E k \in 1..Len(files_df) : files_df[k].NAME = F_part0_parquet
                 /\ \A k \in 1..Len(files_df) : files_df[k].NAME /= F_part0_parquet_crc

C12_Witness ==
    /\ pc = "select"
    /\ \E k \in 1..Len(LsResult(ls_pattern)) : LsResult(ls_pattern)[k].NAME = F_part0_parquet_crc
    /\ \E k \in 1..Len(LsResult(ls_pattern)) : LsResult(ls_pattern)[k].NAME = F_x_bin
    /\ \E k \in 1..Len(files_df) : files_df[k].NAME = F_part0_parquet
    /\ Len(files_df) = 6

\* "File Selection" has run in "Search by Name" mode with a text typed
Searched ==
    /\ file_selection_method = "Search by Name"
    /\ Truthy(partial_name)
    /\ \/ pc = "read"
       \/ pc = "stopped" /\ error.kind \in {"NoFilesMatch", "UncaughtException"}

\* the rows of files_df whose NAME holds the text as a substring, letter case
\* ignored
SubstringHits(text) ==
    SelectSeq(files_df, LAMBDA row : Contains(UpperStr(row.NAME), UpperStr(text)))

\* C13: after a search, a file is selected automatically if and only if
\* exactly one NAME of files_df holds the text as a case-insensitive substring;
\* with two or more such names the candidates are all of them and no file is
\* selected while the user has not chosen; with none nothing is selected.
C13_FuzzySelectionBySubstring ==
    Searched =>
       LET hits == SubstringHits(partial_name)
       IN  /\ error.kind = "AutoSelected" <=> Len(hits) = 1
           /\ Len(hits) = 1 =>
                 selected_file_only_path = OnlyPath(hits[1].NAME, stage_url)
           /\ Len(hits) > 1 =>
                 /\ matched_files = hits
                 /\ selected_choice = NONE => selected_file_only_path = NONE
           /\ Len(hits) = 0 =>
                 /\ selected_file_only_path = NONE
                 /\ error.kind = "NoFilesMatch"

\* the lines of a text that hold more than whitespace, each stripped
RECURSIVE NonBlankLines(_, _)
NonBlankLines(text, i) ==
    IF i > Len(text) THEN <<>>
    ELSE LET end == FindChar(text, i, {"\n", "\r"})
             line == Strip(SubSeq(text, i, end - 1), JsonWhitespace)
             rest == NonBlankLines(text, IF end < Len(text) /\ text[end] = "\r"
                                            /\ text[end + 1] = "\n"
                                         THEN end + 2 ELSE end + 1)
         IN  IF line = <<>> THEN rest ELSE <<line>> \o rest

\* the text is one JSON array
IsArrayText(text) == JsonValid(text) /\ text[SkipJsonWhitespace(text, 1)] = "["

\* the number of ',' of an array text that stand directly inside the outer
\* brackets (outside every string and nested value)
RECURSIVE TopLevelCommas(_, _, _, _)
TopLevelCommas(text, i, depth, inString) ==
    IF i > Len(text) THEN 0
    ELSE IF inString THEN TopLevelCommas(text, i + 1, depth, text[i] /= "\"")
    ELSE IF text[i] = "\"" THEN TopLevelCommas(text, i + 1, depth, TRUE)
    ELSE IF text[i] \in {"[", "{"} THEN TopLevelCommas(text, i + 1, depth + 1, FALSE)
    ELSE IF text[i] \in {"]", "}"} THEN TopLevelCommas(text, i + 1, depth - 1, FALSE)
    ELSE (IF text[i] = "," /\ depth = 1 THEN 1 ELSE 0)
         + TopLevelCommas(text, i + 1, depth, FALSE)

\* C14: the records of the json/ndjson branch: a file that is one JSON value
\* gives one record per element when the value is an array and one record
\* otherwise; a file that is not one JSON
\* value gives one record per non-blank line, in file order: the parsed value
\* of a line that parses, the stripped line under raw_line for a line that
\* does not; {"a":1}, {"b":2}, not-json give three records, the third with
\* raw_line = not-json.
C14_LooseRecordsPerValueOrLine ==
    pc = "returned" =>
       /\ IsArrayText(input) =>
             /\ Len(output) =
                   IF Compact(input, 1, FALSE) = <<"[", "]">> THEN 0
                   ELSE TopLevelCommas(input, 1, 0, FALSE) + 1
             /\ \A k \in 1..Len(output) : ~output[k].raw_line
       /\ (JsonValid(input) /\ ~IsArrayText(input)) =>
             output = <<[raw_line |-> FALSE, value |-> Compact(input, 1, FALSE)]>>
       /\ ~JsonValid(input) =>
             LET lines == NonBlankLines(input, 1)
             IN  /\ Len(output) = Len(lines)
                 /\ \A k \in 1..Len(lines) :
                       output[k] = [raw_line |-> ~JsonValid(lines[k]),
                                    value |-> IF JsonValid(lines[k])
                                              THEN Compact(lines[k], 1, FALSE)
                                              ELSE lines[k]]
       /\ input = FILE_three_lines =>
             /\ Len(output) = 3
             /\ output[3] = [raw_line |-> TRUE, value |-> <<"n", "o", "t", "-", "j", "s", "o", "n">>]

\* how often the character stands in the text
Count(text, c) == Cardinality({k \in 1..Len(text) : text[k] = c})

\* the text was not cut by max_len
Uncut == Len(output) < input.max_len

\* C15: for a record with a single quote and a newline the sanitized text has
\* every quote doubled and a space where the newline was (so it holds nothing
\* but the record's own characters, spaces and the enclosing double quotes),
\* no control character, no two whitespace characters in a row, and at most
\* max_len characters.
C15_QuoteDoubledNewlineBecomesSpace ==
    (/\ pc = "returned"
     /\ Count(input.record, "'") > 0
     /\ Count(input.record, "\n") > 0) =>
       /\ Len(output) <= input.max_len
       /\ \A k \in 1..Len(output) : output[k] \notin ControlChars
       /\ \A k \in 1..(Len(output) - 1) :
             ~(output[k] \in ReWhitespace /\ output[k + 1] \in ReWhitespace)
       /\ Uncut =>
             /\ Count(output, "'") = 2 * Count(input.record, "'")
             /\ Count(output, " ") > 0
             /\ \A k \in 1..Len(output) :
                   output[k] \in ({input.record[h] : h \in 1..Len(input.record)}
                                     \cup {" ", "\""})

\* the quote runs of a text: every maximal run of ' has even length
EvenQuoteRuns(text) ==
    \A i \in 1..Len(text) :
        (text[i] = "'" /\ (i = 1 \/ text[i - 1] /= "'")) =>
            (RunEnd(text, i, {"'"}) - i) % 2 = 0

\* C16: for every record and every max_len, every maximal run of single
\* quotes of the sanitized text has even length.
C16_QuoteRunsAreEven == pc = "returned" => EvenQuoteRuns(output)

\* the names of the calls made by "Read and analyze file" in this run
Called(name) == \E k \in 1..Len(calls) : calls[k].name = name

\* the outcomes in which the text-generation collaborator gives no answer
CortexFailures == {"no_rows", "no_columns", "raises"}

\* "Read and analyze file" is past its try block
PastAnalysis == pc \in {"cleanup", "done"} /\ tmp_dir /= NONE

C18_ScratchReleasedByEndOfRun ==
    /\ pc \notin {"download", "analyze", "cleanup"} => scratch = {}
    /\ \A d \in scratch : d.dir = tmp_dir
    /\ PastAnalysis /\ pc = "done" => \A d \in scratch : d.dir /= tmp_dir

C18_Witness ==
    /\ runs = 2
    /\ pc = "done"
    /\ tmp_dir = <<"sf_stage_", 2>>
    /\ error.kind = "ErrorReadingFile"
    /\ scratch = {}

\* the extensions that have an extractor
KnownExtensions == {EXT_json, EXT_ndjson, EXT_avro, EXT_parquet}

\* the selected name ends, in any letter case, in '.' and a known extension
HasKnownExtension(path) ==
    \E ext \in KnownExtensions : EndsWith(LowerStr(path), <<".">> \o ext)

Extractors == {"json.load", "fastavro.reader", "show_parquet_metadata", "pd.read_parquet"}

\* C19: whenever the selected object's extension is not a known one
\* the run ends with the unsupported-type message naming the extension, and no
\* extractor and no summarization is called.
C19_UnknownExtensionAlwaysReported ==
    (PastAnalysis /\ ~HasKnownExtension(selected_file_only_path)) =>
       /\ error = [kind |-> "UnsupportedFileType", context |-> <<".">> \o file_ext]
       /\ \A k \in 1..Len(calls) : calls[k].name \notin Extractors \cup {"cortex"}

\* no chunk of the file has statistics that fail for another reason
NoOtherFailure(file) ==
    \A j \in 1..Len(file.columns) : file.columns[j].access /= "corrupt"

\* C20: for a file whose statistics fail only because they are not
\* implemented, show_parquet_metadata returns; the result has every row group
\* and in each of them one entry per column chunk with the path, physical
\* type, compression and encodings of the chunk; the statistics of a chunk
\* where reading them is not implemented are absent, and those of a chunk
\* where they can be read are present.
C20_NotImplementedStatisticIsAbsent ==
    (pc = "returned" /\ NoOtherFailure(input)) =>
       /\ ~output.raised
       /\ Len(output.row_groups) = input.num_row_groups
       /\ \A i \in 1..input.num_row_groups :
             /\ output.row_groups[i].num_rows = NumRows(i)
             /\ Len(output.row_groups[i].columns) = Len(input.columns)
             /\ \A j \in 1..Len(input.columns) :
                   LET col == input.columns[j]
                       info == output.row_groups[i].columns[j]
                   IN  /\ info.path_in_schema = PathInSchema(j)
                       /\ info.physical_type = col.physical_type
                       /\ info.compression = COMPRESSION
                       /\ info.encodings = ENCODINGS
                       /\ col.access \in NotImplementedAccess => ~info.statistics.present
                       /\ col.access = "values" =>
                             /\ info.statistics.present
                             /\ info.statistics.min = i
                             /\ info.statistics.max = i + j

C20_Witness ==
    /\ pc = "returned"
    /\ input.num_row_groups = 2
    /\ Len(input.columns) = 2
    /\ input.columns[1].access = "member_not_implemented"
    /\ input.columns[2].access = "values"
    /\ ~output.raised
    /\ ~output.row_groups[2].columns[1].statistics.present
    /\ output.row_groups[2].columns[1].physical_type = input.columns[1].physical_type
    /\ output.row_groups[2].columns[2].statistics.present

\* the run has listed the objects and no object of the listing is left after
\* the side-file filter
NoDataObjects ==
    /\ ls_calls /= <<>>
    /\ error.kind /= "ErrorListingFiles"
    /\ DropSideFiles(LsResult(ls_pattern)) = <<>>

\* C21: when the listing is empty, or holds side-files only, the run stops at
\* "List files" with the no-files message: no file selection is reached, no
\* path is selected and nothing is downloaded or extracted.
C21_SelectionOnlyOverDataObjects ==
    NoDataObjects =>
       /\ pc = "stopped"
       /\ error.kind = "NoFilesFound"
       /\ selected_file_only_path = NONE
       /\ calls = <<>>

\* C22: in every run of a session, past the database selection a finalized
\* table is a table of the selected database (a finalized table of another
\* database has been cleared); a run reaches "Extract DDL Details" only for
\* a table in the table list of the selected database, and no run ends with
\* an uncaught exception.
C22_DatabaseChangeClearsFinalizedTable ==
    /\ error.kind /= "UncaughtException"
    /\ pc \in {"extract", "legacy_extract"} => selected_table \in IcebergTables(selected_db)
    /\ (pc \notin {"database", "legacy_database"} /\ selected_table_final /= NONE) =>
          selected_table_final \in TablesOf(selected_db)

====
